---- MODULE Spec2Model ----
(***************************************************************************)
(* Model of subiquity's install orchestration                              *)
(* (src/subiquity/server/controllers/install.py).                          *)
(*                                                                         *)
(* The install coroutine (InstallController.install) is one asyncio task.  *)
(* pc is the place where that task is suspended (an await) or, for labels  *)
(* in Internal, a place between two awaits; every other callback of the    *)
(* event loop (stop_uu, the background cancel task, log_event, the client's *)
(* confirmation, the exit of the subprocess) runs only while the install   *)
(* task is suspended, as asyncio schedules them.                           *)
(***************************************************************************)
EXTENDS Integers, Sequences, FiniteSets, TLC

\* ------------------------------------------------------------------ bounds
MaxDenials == 1     \* wait_confirmation answers False at most this often
MaxMetaPkgs == 1    \* length of model.oem.metapkgs
OemBatch == 2       \* length of model.oem.metapkgs where the batches are observed
MaxPackages == 1    \* length of the list get_target_packages returns
MaxTraceback == 1   \* lines the traceback extractor may hold
MaxBuilt == 2       \* configurations built from one base configuration
MaxFactors == 3     \* length of the list of scale factors
MaxAvailable == 12  \* largest available_space given to scale_partitions
MaxFed == 5         \* log lines fed to the traceback extractor on its own
MaxSelections == 2  \* contract selections initiated
MaxWaits == 2       \* requests contract_selection_wait_GET answered
MaxPolls == 2       \* GETs one polling task sends

\* ------------------------------------------------------- program constants
NumAttempts == 3    \* range(3) in install_package

\* ------------------------------------------------------------------ state
VARIABLES
  \* inputs of a run: app.interactive, 'autoinstall' in app.kernel_cmdline,
  \* app.opts.dry_run, model.network.has_network, len(model.oem.metapkgs)
  interactive, autoinstall, dry_run, has_network, metapkgs,
  \* what the filesystem controller answered during curtin_install: the names
  \* among core_boot_classic, use_tpm, reset_partition that were read as true
  inputs,
  \* app.state, and the sequence of states published through update_state
  state, published,
  \* model confirmation event, how often wait_confirmation answered False,
  \* and whether confirm() was ever called from outside the install flow
  confirmation, denials, client_confirmed,
  \* the install task: where it is, the operation it awaits
  pc, op,
  \* operations of the install flow started and not yet returned
  running,
  \* what the install flow did, in order, in its current phase (the wait loop
  \* with the apt configuration, curtin_install, postinstall)
  trace,
  \* error reports made (make_apport_report), and the scoped mount of the
  \* reset partition with the exception it holds back
  reports, mounted, pending_exc,
  \* install_package: return place, loop index of the caller, the list
  \* get_target_packages returned, and the current call's attempt number,
  \* download results, sleeps, unpack invocations and unpack result
  pkg_ret, pkg_i, packages, attempt, dl_results, sleeps, unpacks, unpack_result,
  \* the upgrade session, the subprocess, and context.description
  unattended_upgrades_ctx, unattended_upgrades_cmd, uu_proc, description_failed,
  \* the background task of stop_unattended_upgrades
  stop_task, stop_only_issued, terminate_calls,
  \* whether stop_uu was ever called without effect
  stop_uu_disregarded,
  \* TracebackExtractor
  traceback, in_traceback,
  \* the objects the closure run_curtin_step of curtin_install works on (the
  \* shared base_config, the step_config passed in, the copies it makes), and
  \* the calls of the closure made so far
  heap, built,
  \* the calls made of the functions of subiquity/common/filesystem/sizes.py,
  \* each with its arguments and what it returned
  calls,
  \* the log lines journald has delivered to log_event, in order
  fed,
  \* UbuntuProController: self.cs (0: None, else the index of its polling
  \* task), the polling tasks created so far, how many requests
  \* contract_selection_initiate_POST await magic_attach_post, the task a
  \* request contract_selection_wait_GET is blocked on (0: none), how the
  \* requests contract_selection_wait_GET ended, and the selections whose
  \* delete_resource task is scheduled
  cs, tasks, initiating, wait_on, responses, revoking

cfgv == <<interactive, autoinstall, dry_run, has_network, metapkgs>>
appv == <<state, published>>
confv == <<confirmation, denials, client_confirmed>>
flowv == <<pc, op, running, trace>>
failv == <<reports, mounted, pending_exc>>
pkgv == <<pkg_ret, pkg_i, packages, attempt, dl_results, sleeps, unpacks,
          unpack_result>>
uuv == <<unattended_upgrades_ctx, unattended_upgrades_cmd, uu_proc,
         description_failed>>
stopv == <<stop_task, stop_only_issued, terminate_calls, stop_uu_disregarded>>
tbv == <<traceback, in_traceback>>
mergev == <<heap, built>>
\* state of the components modelled beside the install controller
sizev == <<calls>>
upcsv == <<cs, tasks, initiating, wait_on, responses, revoking>>
sidev == <<sizev, fed, upcsv>>
vars == <<cfgv, mergev, sidev, inputs, appv, confv, flowv, failv, pkgv, uuv, stopv, tbv>>

None == "None"

\* ApplicationState values the controller publishes
ApplicationState ==
  {"WAITING", "NEEDS_CONFIRMATION", "RUNNING", "UU_RUNNING", "UU_CANCELLING",
   "DONE"}

\* Places between two awaits: no other callback runs there.
Internal ==
  {"after", "after_step", "curtin_install", "oem_loop1", "oem_update_loop",
   "oem_loop2", "reset_partition", "curtin_install_done", "pkg_return",
   "pkg_loop", "uu_check"}

Suspended == pc \notin Internal

Ev(k, o, n) == [k |-> k, op |-> o, n |-> n]

\* app.update_state(s)
update_state(s) ==
  /\ state' = s
  /\ published' = Append(published, s)

\* A step of curtin_install made through the run_curtin_step closure
CurtinSteps ==
  {"initial", "partitioning", "formatting", "extract", "swap", "curthooks",
   "populate recovery"}

\* The objects of the closure run_curtin_step: the shared base_config, the
\* step_config the caller passes, and the two objects copy.deepcopy makes
Refs == {"base_config", "step_config", "config", "step_config_copy"}

\* ---------------------------------------------------------------- Init
\* Everything but the list of OEM meta-packages
InitAtRest ==
  /\ interactive \in BOOLEAN
  /\ autoinstall \in BOOLEAN
  /\ dry_run \in BOOLEAN
  /\ has_network \in BOOLEAN
  /\ inputs = {}
  /\ state = "STARTING_UP"
  /\ published = <<>>
  /\ confirmation = FALSE
  /\ denials = 0
  /\ client_confirmed = FALSE
  /\ pc = "not_started"
  /\ op = ""
  /\ running = {}
  /\ trace = <<>>
  /\ reports = <<>>
  /\ mounted = FALSE
  /\ pending_exc = FALSE
  /\ pkg_ret = ""
  /\ pkg_i = 0
  /\ packages = 0
  /\ attempt = 0
  /\ dl_results = <<>>
  /\ sleeps = <<>>
  /\ unpacks = 0
  /\ unpack_result = "none"
  /\ unattended_upgrades_ctx = None
  /\ unattended_upgrades_cmd = None
  /\ uu_proc = "none"
  /\ description_failed = FALSE
  /\ stop_task = "none"
  /\ stop_only_issued = 0
  /\ terminate_calls = 0
  /\ stop_uu_disregarded = FALSE
  /\ traceback = <<>>
  /\ in_traceback = FALSE
  /\ heap = [r \in Refs |-> [leaf |-> None]]
  /\ built = <<>>
  /\ calls = <<>>
  /\ fed = <<>>
  /\ cs = 0
  /\ tasks = <<>>
  /\ initiating = 0
  /\ wait_on = 0
  /\ responses = <<>>
  /\ revoking = {}

Init == InitAtRest /\ metapkgs \in 0..MaxMetaPkgs

\* The same with a list of several OEM meta-packages
InitOem == InitAtRest /\ metapkgs = OemBatch


\* ------------------------------------------------- TracebackExtractor
\* A log line is a sequence of tokens: "TB" is the text
\* "Traceback (most recent call last):", " " a whitespace character, "x" any
\* other character.
LogLines == {<<"TB">>, <<" ", "x">>, <<"x">>, <<>>}

\* start_marker.match(line): the line begins with the marker text
start_marker(line) == Len(line) >= 1 /\ line[1] = "TB"

\* end_marker.match(line): the first character is not whitespace
end_marker(line) == Len(line) >= 1 /\ line[1] # " "

\* Mutant of feed: a later start marker starts the capture again.
feed_restarts(tb, in_tb, line) ==
  LET in1 == IF start_marker(line) THEN TRUE
             ELSE IF in_tb /\ end_marker(line) THEN FALSE
             ELSE in_tb
      tb1 == IF ~start_marker(line) /\ in_tb /\ end_marker(line)
             THEN Append(tb, line) ELSE tb
      tb2 == IF in1 THEN Append(tb1, line) ELSE tb1
  IN  <<tb2, in1>>

\* Mutant of feed: the first test looks at in_traceback, not at traceback.
feed_when_not_capturing(tb, in_tb, line) ==
  LET in1 == IF ~in_tb /\ start_marker(line) THEN TRUE
             ELSE IF in_tb /\ end_marker(line) THEN FALSE
             ELSE in_tb
      tb1 == IF ~(~in_tb /\ start_marker(line)) /\ in_tb /\ end_marker(line)
             THEN Append(tb, line) ELSE tb
      tb2 == IF in1 THEN Append(tb1, line) ELSE tb1
  IN  <<tb2, in1>>

\* TracebackExtractor.feed(line): the new (traceback, in_traceback)
feed(tb, in_tb, line) ==
  LET in1 == IF tb = <<>> /\ start_marker(line) THEN TRUE
             ELSE IF in_tb /\ end_marker(line) THEN FALSE
             ELSE in_tb
      tb1 == IF ~(tb = <<>> /\ start_marker(line)) /\ in_tb /\ end_marker(line)
             THEN Append(tb, line) ELSE tb
      tb2 == IF in1 THEN Append(tb1, line) ELSE tb1
  IN  <<tb2, in1>>

\* InstallController.log_event(event), the journald callback
log_event(line) ==
  /\ Suspended
  /\ Len(feed(traceback, in_traceback, line)[1]) <= MaxTraceback
  /\ traceback' = feed(traceback, in_traceback, line)[1]
  /\ in_traceback' = feed(traceback, in_traceback, line)[2]
  /\ UNCHANGED <<cfgv, mergev, sidev, inputs, appv, confv, flowv, failv, pkgv, uuv, stopv>>

\* log_event as journald calls it while no installation runs, with the
\* lines delivered so far recorded
log_event_recorded(line) ==
  /\ Len(fed) < MaxFed
  /\ fed' = Append(fed, line)
  /\ traceback' = feed(traceback, in_traceback, line)[1]
  /\ in_traceback' = feed(traceback, in_traceback, line)[2]
  /\ UNCHANGED <<cfgv, mergev, sizev, upcsv, inputs, appv, confv, flowv, failv,
                 pkgv, uuv, stopv>>

\* ------------------------------------------------- failure of the install
\* Mutant of ReportKw: the Traceback field is attached unconditionally.
ReportKw_always(tb) == {"Traceback"}

\* The extra fields of the report: kw["Traceback"] is set when the extractor
\* holds at least one line.
ReportKw(tb) == IF tb # <<>> THEN {"Traceback"} ELSE {}

\* install's except clause: make the report, raise again
install_except ==
  /\ reports' = Append(reports, [kind |-> "INSTALL_FAIL",
                                 kw |-> ReportKw(traceback)])
  /\ pc' = "raised"

\* The package index an event of operation o carries
EvN(o) == IF o \in {"apt_update", "install_package"} THEN pkg_i ELSE 0

\* The invocation r made for operation o raises, and so does o.
RaiseFrom(o, r) ==
  /\ install_except
  /\ op' = o
  /\ running' = running \ {r}
  /\ trace' = Append(trace, Ev("fail", o, EvN(o)))

\* An awaited operation o of the install flow raises.
Raise(o) == RaiseFrom(o, o)

\* The install flow starts the awaited operation o and is suspended in it.
StartAwait(o) ==
  /\ pc' = "await"
  /\ op' = o
  /\ running' = running \cup {o}
  /\ trace' = Append(trace, Ev("start", o, EvN(o)))

\* ------------------------------------------------- install: the wait loop
\* InstallController.start creates the install task; the task runs to its
\* first await.
start ==
  /\ pc = "not_started"
  /\ update_state("WAITING")
  /\ pc' = "wait_install"
  /\ UNCHANGED <<cfgv, mergev, sidev, inputs, confv, op, running, trace, failv, pkgv, uuv, stopv, tbv>>

\* Mutant of SelfConfirms: the kernel command line is not looked at.
SelfConfirms_ignores_cmdline == ~interactive

\* lines 375-377: whether the install confirms itself after the install trigger
SelfConfirms == ~interactive /\ autoinstall

\* model.wait_install() returns
wait_install_returns ==
  /\ pc = "wait_install"
  /\ confirmation' = (confirmation \/ SelfConfirms)
  /\ update_state("NEEDS_CONFIRMATION")
  /\ pc' = "wait_confirmation"
  /\ UNCHANGED <<cfgv, mergev, sidev, inputs, denials, client_confirmed, op, running, trace,
                 failv, pkgv, uuv, stopv, tbv>>

\* model.confirm() called for the client
confirm ==
  /\ Suspended
  /\ ~confirmation
  /\ confirmation' = TRUE
  /\ client_confirmed' = TRUE
  /\ UNCHANGED <<cfgv, mergev, sidev, inputs, appv, denials, flowv, failv, pkgv, uuv, stopv, tbv>>

\* model.wait_confirmation() returns True: leave the loop, configure apt
wait_confirmation_true ==
  /\ pc = "wait_confirmation"
  /\ confirmation
  /\ update_state("RUNNING")
  /\ StartAwait("configure_apt")
  /\ UNCHANGED <<cfgv, mergev, sidev, inputs, confv, failv, pkgv, uuv, stopv, tbv>>

\* Mutant of wait_confirmation_false: a False answer leaves the loop too.
wait_confirmation_false_breaks ==
  /\ pc = "wait_confirmation"
  /\ ~confirmation
  /\ update_state("RUNNING")
  /\ StartAwait("configure_apt")
  /\ UNCHANGED <<cfgv, mergev, sidev, inputs, confv, failv, pkgv, uuv, stopv, tbv>>

\* model.wait_confirmation() returns False: back to the top of the loop
wait_confirmation_false ==
  /\ pc = "wait_confirmation"
  /\ ~confirmation
  /\ denials < MaxDenials
  /\ denials' = denials + 1
  /\ update_state("WAITING")
  /\ pc' = "wait_install"
  /\ UNCHANGED <<cfgv, mergev, sidev, inputs, confirmation, client_confirmed, op, running,
                 trace, failv, pkgv, uuv, stopv, tbv>>

\* model.wait_confirmation() raises
wait_confirmation_raises ==
  /\ pc = "wait_confirmation"
  /\ Raise("wait_confirmation")
  /\ UNCHANGED <<cfgv, mergev, sidev, inputs, appv, confv, mounted, pending_exc, pkgv, uuv, stopv, tbv>>

\* ------------------------------------------------- awaited operations
\* Operations awaited through the generic "await" place
AwaitOps ==
  {"configure_apt", "abroadcast", "unmount_target", "setup_encryption",
   "create_fstab", "finish_install", "setup_target", "apt_update", "mount",
   "configure_cloud_init", "get_target_packages", "install_drivers",
   "restore_apt_config", "join_domain"}

\* An awaited operation returns normally.
await_returns ==
  /\ pc = "await"
  /\ op \in AwaitOps
  /\ pc' = "after"
  /\ running' = running \ {op}
  /\ trace' = Append(trace, Ev("ok", op, EvN(op)))
  /\ UNCHANGED <<cfgv, mergev, sidev, inputs, appv, confv, op, failv, pkgv, uuv, stopv, tbv>>

\* An awaited operation raises.
await_raises ==
  /\ pc = "await"
  /\ op \in AwaitOps
  /\ Raise(op)
  /\ UNCHANGED <<cfgv, mergev, sidev, inputs, appv, confv, mounted, pending_exc, pkgv, uuv, stopv, tbv>>

\* install, lines 386-392
after_configure_apt ==
  /\ pc = "after" /\ op = "configure_apt"
  /\ StartAwait("abroadcast")
  /\ UNCHANGED <<cfgv, mergev, sidev, inputs, appv, confv, failv, pkgv, uuv, stopv, tbv>>

\* os.path.exists(model.target) decides whether the target is unmounted first
after_abroadcast ==
  /\ pc = "after" /\ op = "abroadcast"
  /\ \E target_exists \in BOOLEAN :
       IF target_exists
       THEN StartAwait("unmount_target")
       ELSE /\ pc' = "curtin_install"
            /\ UNCHANGED <<op, running, trace>>
  /\ UNCHANGED <<cfgv, mergev, sidev, inputs, appv, confv, failv, pkgv, uuv, stopv, tbv>>

after_unmount_target ==
  /\ pc = "after" /\ op = "unmount_target"
  /\ pc' = "curtin_install"
  /\ UNCHANGED <<cfgv, mergev, sidev, inputs, appv, confv, op, running, trace, failv, pkgv, uuv,
                 stopv, tbv>>

\* line 262: the path curtin_install took
core_boot_classic == "core_boot_classic" \in inputs

\* ------------------------------------------------- step configuration
\* A configuration is a dict whose values are scalars or dicts: V(s) is the
\* scalar s, D(f) the dict with the items of the function f.
V(s) == [leaf |-> s]
D(f) == [dict |-> f]
IsDict(v) == "dict" \in DOMAIN v

\* merge_config(cfg, cfg2): the items of cfg2 go into cfg; a dict of cfg2 is
\* merged into a dict cfg has under the same key, any other value replaces
\* what cfg has.  The result is the value of cfg after the call.
RECURSIVE merge_config(_, _)
merge_config(cfg, cfg2) ==
  D([k \in DOMAIN cfg.dict \cup DOMAIN cfg2.dict |->
       IF k \notin DOMAIN cfg2.dict THEN cfg.dict[k]
       ELSE IF /\ IsDict(cfg2.dict[k])
               /\ k \in DOMAIN cfg.dict
               /\ IsDict(cfg.dict[k])
            THEN merge_config(cfg.dict[k], cfg2.dict[k])
            ELSE cfg2.dict[k]])

\* base_config(logs_dir, resume_data_file), lines 118-132
base_config(logs_dir, resume_data_file) ==
  D([install |->
       D([target |-> V("/target"),
          unmount |-> V("disabled"),
          save_install_config |-> V("False"),
          save_install_log |-> V("False"),
          log_file |-> V(<<logs_dir, "curtin-install.log">>),
          log_file_append |-> V("True"),
          error_tarfile |-> V(<<logs_dir, "curtin-errors.tar">>),
          resume_data |-> V(resume_data_file)])])

\* filesystem_config(device_map_path, mode), lines 134-144: what the
\* filesystem model renders for the mode, with the device map path in it
filesystem_config(device_map_path, mode) ==
  D([storage |-> D([rendered |-> V(mode),
                    device_map_path |-> V(device_map_path)])])

\* generic_config(**kw), lines 146-151: what the model renders, updated by kw
generic_config(kw) ==
  D([k \in {"rendered"} \cup DOMAIN kw |->
       IF k \in DOMAIN kw THEN kw[k] ELSE V("model")])

\* rp_config(logs_dir, target), lines 153-162
rp_config(logs_dir, target) ==
  D([install |-> D([target |-> V(target),
                    resume_data |-> V(None),
                    extra_rsync_args |-> V(<<"--no-links">>)])])

\* curtin_install, lines 233-238
logs_dir == "var/log/installer"
resume_data_file == "resume-data.json"

\* The arguments curtin_install passes to its closure run_curtin_step for the
\* step name, on the core-boot-classic path (cbc) or the classic one.
CallArgs(name, cbc) ==
  CASE name = "initial" ->
         [stages |-> <<>>, step_config |-> D(<<>>), source |-> None]
    [] name = "partitioning" /\ cbc ->
         [stages |-> <<"partitioning">>,
          step_config |-> filesystem_config(<<logs_dir, "device-map-partition.json">>,
                                            "DEVICES"),
          source |-> None]
    [] name = "partitioning" /\ ~cbc ->
         [stages |-> <<"partitioning">>,
          step_config |-> filesystem_config(<<logs_dir, "device-map.json">>,
                                            "DEFAULT"),
          source |-> None]
    [] name = "formatting" ->
         [stages |-> <<"partitioning">>,
          step_config |-> filesystem_config(<<logs_dir, "device-map-format.json">>,
                                            "FORMAT_MOUNT"),
          source |-> None]
    [] name = "extract" ->
         [stages |-> <<"extract">>, step_config |-> generic_config(<<>>),
          source |-> "cp://for_install_path"]
    [] name = "swap" ->
         [stages |-> <<"swap">>,
          step_config |-> generic_config(
            [swap_commands |->
               D([subiquity |-> V(<<"curtin", "swap", "--fstab",
                                    "/target/etc/fstab">>)])]),
          source |-> None]
    [] name = "curthooks" ->
         [stages |-> <<"curthooks">>, step_config |-> generic_config(<<>>),
          source |-> None]
    [] name = "populate recovery" ->
         [stages |-> <<"extract">>,
          step_config |-> rp_config(logs_dir, "mountpoint"),
          source |-> "cp:///cdrom"]

\* What a step is run with: its stages, its source and the configuration
\* written to its config file (the base configuration with the step's
\* configuration merged in).
ConfigEv(name, args) ==
  [k |-> "config", op |-> name, n |-> 0,
   stages |-> args.stages,
   source |-> args.source,
   config |-> merge_config(base_config(logs_dir, resume_data_file),
                           args.step_config)]

\* ------------------------------------------------- sizes.py
\* Sizes are integers.  TLC's integers have 32 bits, so the two unit constants
\* are 2^18 times smaller than in models/filesystem.py; the arithmetic on
\* sizes is the code's.
MiB == 4
GiB == 1024 * MiB

\* math.ceil(a / b) for b > 0
CeilDiv(a, b) == -((-a) \div b)

\* align_up(size, block_size), align_down(size, block_size)
align_up(size, block_size) == CeilDiv(size, block_size) * block_size
align_down(size, block_size) == (size \div block_size) * block_size

Max(a, b) == IF a >= b THEN a ELSE b
Min(a, b) == IF a <= b THEN a ELSE b

PartitionScaleFactors(minimum, priority, maximum) ==
  [minimum |-> minimum, priority |-> priority, maximum |-> maximum]

uefi_scale == PartitionScaleFactors(538 * MiB, 538, 1075 * MiB)
bootfs_scale == PartitionScaleFactors(1792 * MiB, 1024, 2048 * MiB)
rootfs_scale == PartitionScaleFactors(900 * MiB, 10000, -1)

RECURSIVE SumSeq(_)
SumSeq(seq) == IF seq = <<>> THEN 0 ELSE Head(seq) + SumSeq(Tail(seq))

\* int((available_space / sum_priorities) * cur.priority); on the values
\* used here the floating-point result is the exact quotient rounded down
scaled_share(available_space, sum_priorities, priority) ==
  (available_space * priority) \div sum_priorities

\* scale_partitions(all_factors, available_space), lines 41-60
scale_partitions(all_factors, available_space) ==
  LET sum_priorities ==
        SumSeq([i \in DOMAIN all_factors |-> all_factors[i].priority])
      size(cur) ==
        LET scaled == scaled_share(available_space, sum_priorities, cur.priority)
        IN  IF scaled < cur.minimum THEN cur.minimum
            ELSE IF scaled > cur.maximum THEN cur.maximum
            ELSE scaled
      ret == [i \in DOMAIN all_factors |-> size(all_factors[i])]
  IN  IF \E i \in DOMAIN ret : ret[i] = -1
      THEN LET used == SumSeq(SelectSeq(ret, LAMBDA x : x # -1))
               idx == CHOOSE i \in DOMAIN ret :
                        /\ ret[i] = -1
                        /\ \A j \in 1..(i - 1) : ret[j] # -1
           IN  [ret EXCEPT ![idx] = available_space - used]
      ELSE ret

\* the factor set of get_efi_size and get_bootfs_size, lines 64 and 69
all_factors_of_install == <<uefi_scale, bootfs_scale, rootfs_scale>>

\* Mutant of get_efi_size: the second size is returned.
get_efi_size_second(available_space) ==
  scale_partitions(all_factors_of_install, available_space)[2]

\* get_efi_size(available_space), lines 63-65
get_efi_size(available_space) ==
  scale_partitions(all_factors_of_install, available_space)[1]

\* get_bootfs_size(available_space), lines 68-70
get_bootfs_size(available_space) ==
  scale_partitions(all_factors_of_install, available_space)[2]

\* Mutant of calculate_guided_resize: the window is not checked against
\* install_min, and recommended is not aligned.
calculate_guided_resize_unchecked(part_min, part_size0, install_min, part_align) ==
  IF part_min < 0 THEN [kind |-> "None"]
  ELSE
    LET part_size == align_up(part_size0, part_align)
        other_room_to_grow == Max(2 * GiB, CeilDiv(part_min, 4))
        padded_other_min == part_min + other_room_to_grow
        other_min == Min(align_up(padded_other_min, part_align), part_size)
        plausible_free_space == part_size - other_min
        other_max == align_down(part_size - install_min, part_align)
        resize_window == other_max - other_min
    IN  IF other_min + install_min = 0
        THEN [kind |-> "ZeroDivisionError"]
        ELSE [kind |-> "GuidedResizeValues",
              install_max |-> plausible_free_space,
              minimum |-> other_min,
              recommended |-> CeilDiv(resize_window * other_min,
                                      other_min + install_min) + other_min,
              maximum |-> other_max]

\* calculate_guided_resize(part_min, part_size, install_min, part_align),
\* lines 84-110: None, a GuidedResizeValues, or the ZeroDivisionError of
\* other_min / (other_min + install_min)
calculate_guided_resize(part_min, part_size0, install_min, part_align) ==
  IF part_min < 0 THEN [kind |-> "None"]
  ELSE
    LET part_size == align_up(part_size0, part_align)
        other_room_to_grow == Max(2 * GiB, CeilDiv(part_min, 4))
        padded_other_min == part_min + other_room_to_grow
        other_min == Min(align_up(padded_other_min, part_align), part_size)
        plausible_free_space == part_size - other_min
        other_max == align_down(part_size - install_min, part_align)
        resize_window == other_max - other_min
    IN  IF plausible_free_space < install_min
        THEN [kind |-> "None"]
        ELSE IF other_min + install_min = 0
        THEN [kind |-> "ZeroDivisionError"]
        ELSE LET raw_recommended ==
                   CeilDiv(resize_window * other_min, other_min + install_min)
                   + other_min
             IN  [kind |-> "GuidedResizeValues",
                  install_max |-> plausible_free_space,
                  minimum |-> other_min,
                  recommended |-> align_up(raw_recommended, part_align),
                  maximum |-> other_max]

\* Mutant of calculate_suggested_install_min: the room to grow is the
\* smaller of the two.
calculate_suggested_install_min_small_room(source_min, part_align) ==
  align_up(source_min + bootfs_scale.minimum + uefi_scale.minimum
           + Min(2 * GiB, CeilDiv(source_min, 2)), part_align)

\* calculate_suggested_install_min(source_min, part_align), lines 127-132
calculate_suggested_install_min(source_min, part_align) ==
  LET room_for_boot == bootfs_scale.minimum
      room_for_esp == uefi_scale.minimum
      room_to_grow == Max(2 * GiB, CeilDiv(source_min, 2))
      total == source_min + room_for_boot + room_for_esp + room_to_grow
  IN  align_up(total, part_align)

\* Mutant of scaled_rootfs_size: the last two branches are exchanged.
scaled_rootfs_size_swapped(available) ==
  IF available < 10 * GiB THEN available
  ELSE IF available < 20 * GiB THEN 10 * GiB
  ELSE IF available < 200 * GiB THEN 100 * GiB
  ELSE available \div 2

\* scaled_rootfs_size(available), lines 138-150
scaled_rootfs_size(available) ==
  IF available < 10 * GiB THEN available
  ELSE IF available < 20 * GiB THEN 10 * GiB
  ELSE IF available < 200 * GiB THEN available \div 2
  ELSE 100 * GiB

\* ------------------------------------------------- calls of sizes.py
\* The scale factors, sizes and alignments the functions are called with
FactorChoices ==
  {PartitionScaleFactors(minimum, priority, maximum) :
     minimum \in {0, 3, 6}, priority \in {1, 3}, maximum \in {-1, 8}}

PartMinChoices == {-1, 0, 1, 5, GiB, 3 * GiB + 1, 8 * GiB + 5}
PartSizeChoices == {0, 1, 2 * GiB, 2 * GiB + 1, 4 * GiB, 8 * GiB, 16 * GiB}
InstallMinChoices == {0, 1, GiB, 2 * GiB, 6 * GiB}
AlignChoices == {1, MiB, GiB}
SourceMinChoices ==
  {0, 1, 2, 3, MiB, GiB - 1, GiB, 4 * GiB - 1, 4 * GiB, 4 * GiB + 1,
   4 * GiB + 2, 6 * GiB}
AvailableChoices ==
  {0, 1, 5 * GiB, 10 * GiB - 1, 10 * GiB, 15 * GiB, 20 * GiB - 1, 20 * GiB,
   20 * GiB + 1, 100 * GiB, 200 * GiB - 1, 200 * GiB, 200 * GiB + 1, 500 * GiB}

\* Disks for the factor set of an install, from the sum of the three
\* minimums up
DiskChoices ==
  {3230 * MiB, 3230 * MiB + 1, 8 * GiB, 12 * GiB, 20 * GiB, 20 * GiB + 1,
   23 * GiB, 50 * GiB}

\* Functions of which a second call is made, to compare the two results
ComparedFunctions == {"calculate_suggested_install_min", "scaled_rootfs_size"}

CanCall(fn) ==
  \/ calls = <<>>
  \/ /\ Len(calls) = 1
     /\ fn \in ComparedFunctions
     /\ calls[1].fn = fn

Call(fn, args, result) ==
  /\ calls' = Append(calls, [fn |-> fn, args |-> args, result |-> result])
  /\ UNCHANGED <<cfgv, mergev, fed, upcsv, inputs, appv, confv, flowv, failv, pkgv, uuv,
                 stopv, tbv>>

call_scale_partitions ==
  /\ CanCall("scale_partitions")
  /\ \E n \in 1..MaxFactors :
       \E all_factors \in [1..n -> FactorChoices] :
         \E available_space \in 0..MaxAvailable :
           Call("scale_partitions",
                [all_factors |-> all_factors, available_space |-> available_space],
                scale_partitions(all_factors, available_space))

call_scale_partitions_of_install ==
  /\ CanCall("scale_partitions")
  /\ \E available_space \in DiskChoices :
       Call("scale_partitions",
            [all_factors |-> all_factors_of_install,
             available_space |-> available_space],
            scale_partitions(all_factors_of_install, available_space))

call_get_efi_size ==
  /\ CanCall("get_efi_size")
  /\ \E available_space \in DiskChoices :
       Call("get_efi_size", [available_space |-> available_space],
            get_efi_size(available_space))

call_get_bootfs_size ==
  /\ CanCall("get_bootfs_size")
  /\ \E available_space \in DiskChoices :
       Call("get_bootfs_size", [available_space |-> available_space],
            get_bootfs_size(available_space))

call_calculate_guided_resize ==
  /\ CanCall("calculate_guided_resize")
  /\ \E part_min \in PartMinChoices, part_size \in PartSizeChoices,
        install_min \in InstallMinChoices, part_align \in AlignChoices :
       Call("calculate_guided_resize",
            [part_min |-> part_min, part_size |-> part_size,
             install_min |-> install_min, part_align |-> part_align],
            calculate_guided_resize(part_min, part_size, install_min, part_align))

call_calculate_suggested_install_min ==
  /\ CanCall("calculate_suggested_install_min")
  /\ \E source_min \in SourceMinChoices, part_align \in AlignChoices :
       Call("calculate_suggested_install_min",
            [source_min |-> source_min, part_align |-> part_align],
            calculate_suggested_install_min(source_min, part_align))

call_scaled_rootfs_size ==
  /\ CanCall("scaled_rootfs_size")
  /\ \E available \in AvailableChoices :
       Call("scaled_rootfs_size", [available |-> available],
            scaled_rootfs_size(available))

\* The install controller at rest, with one configuration of the run
InitSide ==
  /\ Init
  /\ interactive /\ ~autoinstall /\ ~dry_run /\ ~has_network /\ metapkgs = 0

NextTraceback == \E line \in LogLines : log_event_recorded(line)

SpecTraceback == InitSide /\ [][NextTraceback]_vars

NextSizes ==
  \/ call_scale_partitions
  \/ call_scale_partitions_of_install
  \/ call_get_efi_size
  \/ call_get_bootfs_size
  \/ call_calculate_guided_resize
  \/ call_calculate_suggested_install_min
  \/ call_scaled_rootfs_size

SpecSizes == InitSide /\ [][NextSizes]_vars

\* ------------------------------------------- Ubuntu Pro contract selection
\* The contract tokens the contracts service may hand out
Tokens == {"token1", "token2"}

\* What is left alone by the handlers of the contract selection
OutsideSelection ==
  <<cfgv, mergev, sizev, fed, inputs, appv, confv, flowv, failv, pkgv, uuv,
    stopv, tbv>>

\* asyncio.create_task(self._run_polling()): the task starts in sleep(30).
\* With the task go the sleeps it has started, the GETs it has sent and the
\* last answer it got, and the delete_resource tasks scheduled for its
\* selection and how the last of them ended.
NewTask ==
  [st |-> "sleeping", result |-> None, naps |-> 1, gets |-> 0,
   answer |-> "no answer", deletes |-> 0, deleted |-> "no"]

\* task.done(): _run_polling returned, raised or was cancelled
Done(t) == t.st \in {"returned", "UPCSExpiredError", "ClientError", "cancelled"}

\* contract_selection_initiate_POST up to its await; it raises
\* UPCSAlreadyInitiatedError while a selection is still polling
contract_selection_initiate_POST ==
  /\ Len(tasks) + initiating < MaxSelections
  /\ ~(cs # 0 /\ ~Done(tasks[cs]))
  /\ initiating' = initiating + 1
  /\ UNCHANGED <<cs, tasks, wait_on, responses, revoking>>
  /\ UNCHANGED OutsideSelection

\* magic_attach_post answers: ContractSelection.initiate builds the selection,
\* whose constructor creates the polling task
magic_attach_post_answers ==
  /\ initiating > 0
  /\ initiating' = initiating - 1
  /\ tasks' = Append(tasks, NewTask)
  /\ cs' = Len(tasks) + 1
  /\ UNCHANGED <<wait_on, responses, revoking>>
  /\ UNCHANGED OutsideSelection

\* magic_attach_post raises (raise_for_status): self.cs is not assigned
magic_attach_post_raises ==
  /\ initiating > 0
  /\ initiating' = initiating - 1
  /\ UNCHANGED <<cs, tasks, wait_on, responses, revoking>>
  /\ UNCHANGED OutsideSelection

\* _run_polling: a sleep (the first of 30 s, the later ones of 10 s) ends
\* and the GET is sent
sleep_ends(i) ==
  /\ tasks[i].st = "sleeping"
  /\ tasks[i].gets < MaxPolls
  /\ tasks' = [tasks EXCEPT ![i].st = "requesting", ![i].gets = @ + 1]
  /\ UNCHANGED <<cs, initiating, wait_on, responses, revoking>>
  /\ UNCHANGED OutsideSelection

\* What magic_attach_get may answer: None (401: the magic token expired), a
\* dict with a contractToken, a dict without
Answers == {None, "pending"} \cup Tokens

\* Mutant of polled: an answer without contractToken is followed by the
\* next GET at once.
polled_without_sleep(t, answer) ==
  IF answer = None
  THEN [t EXCEPT !.st = "UPCSExpiredError", !.answer = answer]
  ELSE IF answer \in Tokens
  THEN [t EXCEPT !.st = "returned", !.result = answer, !.answer = answer]
  ELSE [t EXCEPT !.st = "requesting", !.gets = @ + 1, !.answer = answer]

\* _run_polling, lines 70-76: the task after the answer to its GET
polled(t, answer) ==
  IF answer = None
  THEN [t EXCEPT !.st = "UPCSExpiredError", !.answer = answer]
  ELSE IF answer \in Tokens
  THEN [t EXCEPT !.st = "returned", !.result = answer, !.answer = answer]
  ELSE [t EXCEPT !.st = "sleeping", !.naps = @ + 1, !.answer = answer]

\* _run_polling: magic_attach_get answers, or raises
magic_attach_get_answers(i) ==
  /\ tasks[i].st = "requesting"
  /\ \/ \E answer \in Answers :
          /\ answer = "pending" => tasks[i].gets < MaxPolls
          /\ tasks' = [tasks EXCEPT ![i] = polled(tasks[i], answer)]
     \/ tasks' = [tasks EXCEPT ![i].st = "ClientError"]
  /\ UNCHANGED <<cs, initiating, wait_on, responses, revoking>>
  /\ UNCHANGED OutsideSelection

\* Mutant of WaitOutcome: UPCSExpiredError is not caught.
WaitOutcome_expired_raises(t) ==
  IF t.st = "returned"
  THEN [kind |-> "UPCSWaitResponse", status |-> "SUCCESS",
        contract_token |-> t.result]
  ELSE [kind |-> IF t.st = "cancelled" THEN "CancelledError" ELSE t.st,
        status |-> None, contract_token |-> None]

\* How contract_selection_wait_GET ends once the task it awaits through
\* asyncio.shield is done: shield hands on the task's result or exception,
\* and cancels its own future when the task was cancelled
WaitOutcome(t) ==
  IF t.st = "returned"
  THEN [kind |-> "UPCSWaitResponse", status |-> "SUCCESS",
        contract_token |-> t.result]
  ELSE IF t.st = "UPCSExpiredError"
  THEN [kind |-> "UPCSWaitResponse", status |-> "TIMEOUT",
        contract_token |-> None]
  ELSE [kind |-> IF t.st = "cancelled" THEN "CancelledError" ELSE t.st,
        status |-> None, contract_token |-> None]

Ended(on, blocked, outcome) ==
  [req |-> "wait", on |-> on, blocked |-> blocked, kind |-> outcome.kind,
   status |-> outcome.status, contract_token |-> outcome.contract_token]

\* contract_selection_wait_GET up to its await
contract_selection_wait_GET ==
  /\ wait_on = 0
  /\ Len(responses) < MaxWaits
  /\ IF cs = 0
     THEN /\ responses' =
               Append(responses,
                      Ended(0, FALSE, [kind |-> "UPCSNotInitiatedError",
                                       status |-> None,
                                       contract_token |-> None]))
          /\ UNCHANGED wait_on
     ELSE IF Done(tasks[cs])
     THEN /\ responses' =
               Append(responses, Ended(cs, FALSE, WaitOutcome(tasks[cs])))
          /\ UNCHANGED wait_on
     ELSE /\ wait_on' = cs
          /\ UNCHANGED responses
  /\ UNCHANGED <<cs, tasks, initiating, revoking>>
  /\ UNCHANGED OutsideSelection

\* contract_selection_wait_GET after its await: the awaited task is done
wait_resumes ==
  /\ wait_on # 0
  /\ Done(tasks[wait_on])
  /\ responses' =
       Append(responses, Ended(wait_on, TRUE, WaitOutcome(tasks[wait_on])))
  /\ wait_on' = 0
  /\ UNCHANGED <<cs, tasks, initiating, revoking>>
  /\ UNCHANGED OutsideSelection

\* schedule_task(delete_resource()): the coroutine is run as a task of its own
schedule_task(i) == revoking \cup {i}

\* Mutant of contract_selection_cancel_POST: the polling task goes on.
contract_selection_cancel_POST_keeps_polling ==
  /\ cs # 0
  /\ tasks' = [tasks EXCEPT ![cs].deletes = @ + 1]
  /\ revoking' = schedule_task(cs)
  /\ cs' = 0
  /\ UNCHANGED <<initiating, wait_on, responses>>
  /\ UNCHANGED OutsideSelection

\* Mutant of contract_selection_cancel_POST: self.cs is not cleared (and a
\* selection is cancelled once).
contract_selection_cancel_POST_keeps ==
  /\ cs # 0
  /\ tasks[cs].deletes = 0
  /\ tasks' = [tasks EXCEPT
                 ![cs].st = IF Done(tasks[cs]) THEN @ ELSE "cancelled",
                 ![cs].deletes = @ + 1]
  /\ revoking' = revoking \cup {cs}
  /\ UNCHANGED <<cs, initiating, wait_on, responses>>
  /\ UNCHANGED OutsideSelection

\* contract_selection_cancel_POST: it raises UPCSNotInitiatedError when
\* self.cs is None; otherwise ContractSelection.cancel cancels the polling
\* task, which has no effect on a task that is done, and schedules
\* delete_resource, and self.cs is cleared
contract_selection_cancel_POST ==
  /\ IF cs = 0
     THEN /\ Len(responses) < MaxWaits
          /\ responses' =
               Append(responses,
                      [req |-> "cancel", on |-> 0, blocked |-> FALSE,
                       kind |-> "UPCSNotInitiatedError", status |-> None,
                       contract_token |-> None])
          /\ UNCHANGED <<cs, tasks, revoking>>
     ELSE /\ tasks' = [tasks EXCEPT
                         ![cs].st = IF Done(tasks[cs]) THEN @ ELSE "cancelled",
                         ![cs].deletes = @ + 1]
          /\ revoking' = schedule_task(cs)
          /\ cs' = 0
          /\ UNCHANGED responses
  /\ UNCHANGED <<initiating, wait_on>>
  /\ UNCHANGED OutsideSelection

\* delete_resource: magic_attach_delete ends; a ClientError it raises is
\* logged and goes no further
delete_resource(i) ==
  /\ i \in revoking
  /\ revoking' = revoking \ {i}
  /\ \E outcome \in {"revoked", "ClientError logged"} :
       tasks' = [tasks EXCEPT ![i].deleted = outcome]
  /\ UNCHANGED <<cs, initiating, wait_on, responses>>
  /\ UNCHANGED OutsideSelection

NextSelection ==
  \/ contract_selection_initiate_POST
  \/ magic_attach_post_answers
  \/ magic_attach_post_raises
  \/ \E i \in DOMAIN tasks : sleep_ends(i)
  \/ \E i \in DOMAIN tasks : magic_attach_get_answers(i)
  \/ contract_selection_wait_GET
  \/ wait_resumes
  \/ contract_selection_cancel_POST
  \/ \E i \in DOMAIN tasks : delete_resource(i)

SpecSelection == InitSide /\ [][NextSelection]_vars

\* ------------------------------------------------- building configurations
\* The closure run_curtin_step (lines 247-258) on objects: heap gives the
\* value of every object; an object is changed by writing through a
\* reference to it.

\* curtin_install, line 237: the base configuration of the run is created
create_base_config ==
  /\ heap["base_config"] = V(None)
  /\ heap' = [heap EXCEPT !["base_config"] =
                base_config(logs_dir, resume_data_file)]
  /\ UNCHANGED <<built, cfgv, sidev, inputs, appv, confv, flowv, failv, pkgv,
                 uuv, stopv, tbv>>

\* Mutant of deepcopy: no copy is made, the object itself is handed on.
deepcopy_shares(h, src, dst) == [h |-> h, ref |-> src]

\* copy.deepcopy(obj): a new object (dst) with the value of obj (src)
deepcopy(h, src, dst) == [h |-> [h EXCEPT ![dst] = h[src]], ref |-> dst]

\* merge_config(cfg, cfg2) changes the object cfg in place
merge_config_in_place(h, cfg, cfg2) ==
  [h EXCEPT ![cfg] = merge_config(h[cfg], h[cfg2])]

\* The step configurations curtin_install passes, and some that replace what
\* the base configuration holds under install or add to it
StepConfigs ==
  {CallArgs(name, cbc).step_config : name \in CurtinSteps, cbc \in BOOLEAN}
  \cup {D([install |-> V("replaced")]),
        D([install |-> D([target |-> V("elsewhere"),
                          log_file |-> D([nested |-> V("x")])])])}

\* run_curtin_step(name, stages, step_config, source), lines 248-250: the
\* configuration handed to InstallController.run_curtin_step
build_config(step_config) ==
  /\ heap["base_config"] # V(None)
  /\ Len(built) < MaxBuilt
  /\ LET h0 == [heap EXCEPT !["step_config"] = step_config]
         c1 == deepcopy(h0, "base_config", "config")
         c2 == deepcopy(c1.h, "step_config", "step_config_copy")
         h3 == merge_config_in_place(c2.h, c1.ref, c2.ref)
     IN  /\ heap' = h3
         /\ built' = Append(built, [step_config |-> step_config,
                                    config |-> h3[c1.ref]])
  /\ UNCHANGED <<cfgv, sidev, inputs, appv, confv, flowv, failv, pkgv, uuv,
                 stopv, tbv>>

NextConfig ==
  \/ create_base_config
  \/ \E step_config \in StepConfigs : build_config(step_config)

SpecConfig == Init /\ [][NextConfig]_vars

\* ------------------------------------------------- run_curtin_step
\* The closure run_curtin_step of curtin_install builds the step's config and
\* awaits InstallController.run_curtin_step, which invokes the external tool.
StartCall(name, args) ==
  /\ pc' = "curtin_step"
  /\ op' = name
  /\ running' = running \cup {name}
  /\ trace' = trace \o <<Ev("start", name, 0), ConfigEv(name, args)>>

\* Mutant of StartStep: the step is started but not awaited.
StartStep_not_awaited(name) ==
  /\ pc' = "after_step"
  /\ op' = name
  /\ running' = running \cup {name}
  /\ trace' = Append(trace, Ev("start", name, 0))

\* A call of the closure made once the path is known
StartStep(name) == StartCall(name, CallArgs(name, core_boot_classic))

\* config.get('storage', {}).get('device_map_path'), line 219
device_map_path(config) ==
  IF /\ "storage" \in DOMAIN config.dict
     /\ IsDict(config.dict["storage"])
     /\ "device_map_path" \in DOMAIN config.dict["storage"].dict
  THEN config.dict["storage"].dict["device_map_path"]
  ELSE V(None)

\* The configuration the step name was last started with
StepConfig(name) ==
  LET cs_ == {i \in DOMAIN trace : trace[i].k = "config" /\ trace[i].op = name}
  IN  trace[CHOOSE i \in cs_ : \A j \in cs_ : j <= i].config

\* Mutant of HasDeviceMap: a device map is expected of every step.
HasDeviceMap_always(name) == TRUE

\* line 220: the configuration of the step has a device_map_path
HasDeviceMap(name) == device_map_path(StepConfig(name)) # V(None)

\* An exception leaves run_curtin_step with the events evs logged: inside the
\* scoped mount of the reset partition the mount is undone first, otherwise
\* install's except clause runs.
step_raises(evs) ==
  IF mounted
  THEN /\ pending_exc' = TRUE
       /\ pc' = "unmount_rp"
       /\ op' = "unmount"
       /\ running' = (running \ {op}) \cup {"unmount"}
       /\ trace' = trace \o evs \o <<Ev("start", "unmount", 0)>>
       /\ UNCHANGED <<reports, mounted>>
  ELSE /\ install_except
       /\ op' = op
       /\ running' = running \ {op}
       /\ trace' = trace \o evs
       /\ UNCHANGED <<mounted, pending_exc>>

\* Mutant of step_failed: the step runner invokes the tool again.
step_failed_retry ==
  /\ pc' = "curtin_step"
  /\ op' = op
  /\ running' = running
  /\ trace' = trace \o <<Ev("fail", op, 0), Ev("start", op, 0)>>
  /\ UNCHANGED <<reports, mounted, pending_exc>>

\* The external tool exits with non-zero: CalledProcessError propagates.
step_failed == step_raises(<<Ev("fail", op, 0)>>)

\* The external tool returned successfully: lines 219-223.
step_succeeded ==
  IF HasDeviceMap(op)
  THEN \E readable \in BOOLEAN :
         IF readable
         THEN /\ pc' = "after_step"
              /\ op' = op
              /\ running' = running \ {op}
              /\ trace' = trace \o <<Ev("ok", op, 0), Ev("update_devices", op, 0)>>
              /\ UNCHANGED failv
         ELSE step_raises(<<Ev("ok", op, 0), Ev("device_map_error", op, 0)>>)
  ELSE /\ pc' = "after_step"
       /\ op' = op
       /\ running' = running \ {op}
       /\ trace' = Append(trace, Ev("ok", op, 0))
       /\ UNCHANGED failv

run_curtin_step_ok ==
  /\ pc = "curtin_step"
  /\ step_succeeded
  /\ UNCHANGED <<cfgv, mergev, sidev, inputs, appv, confv, pkgv, uuv, stopv, tbv>>

run_curtin_step_fails ==
  /\ pc = "curtin_step"
  /\ step_failed
  /\ UNCHANGED <<cfgv, mergev, sidev, inputs, appv, confv, pkgv, uuv, stopv, tbv>>

\* ------------------------------------------------- curtin_install
\* What the flow leaves alone when it only moves on to its next operation
FlowFrameR == UNCHANGED <<cfgv, mergev, sidev, appv, confv, failv, uuv, stopv, tbv>>
FlowFrame == FlowFrameR /\ UNCHANGED inputs

\* curtin_install is entered: its history starts
curtin_install_begin ==
  /\ pc = "curtin_install"
  /\ pc' = "curtin_step"
  /\ op' = "initial"
  /\ running' = running \cup {"initial"}
  /\ trace' = <<Ev("start", "initial", 0),
                ConfigEv("initial", CallArgs("initial", FALSE))>>
  /\ FlowFrame /\ UNCHANGED pkgv

\* Mutant of SetupEncryptionNeeded: the encryption setup is left out.
SetupEncryptionNeeded_never(use_tpm) == FALSE

\* line 270: if fs_controller.use_tpm
SetupEncryptionNeeded(use_tpm) == use_tpm

\* the answer b to the read of name joins the answers
Read(name, b) == inputs' = IF b THEN inputs \cup {name} ELSE inputs

\* line 262: fs_controller.is_core_boot_classic() chooses the path
after_initial ==
  /\ pc = "after_step" /\ op = "initial"
  /\ \E b \in BOOLEAN :
       /\ Read("core_boot_classic", b)
       /\ StartCall("partitioning", CallArgs("partitioning", b))
  /\ FlowFrameR /\ UNCHANGED pkgv

after_partitioning ==
  /\ pc = "after_step" /\ op = "partitioning"
  /\ IF core_boot_classic
     THEN \E use_tpm \in BOOLEAN :
            /\ Read("use_tpm", use_tpm)
            /\ IF SetupEncryptionNeeded(use_tpm)
               THEN StartAwait("setup_encryption")
               ELSE StartStep("formatting")
     ELSE StartStep("extract") /\ UNCHANGED inputs
  /\ FlowFrameR /\ UNCHANGED pkgv

after_setup_encryption ==
  /\ pc = "after" /\ op = "setup_encryption"
  /\ StartStep("formatting")
  /\ FlowFrame /\ UNCHANGED pkgv

after_formatting ==
  /\ pc = "after_step" /\ op = "formatting"
  /\ StartStep("extract")
  /\ FlowFrame /\ UNCHANGED pkgv

after_extract ==
  /\ pc = "after_step" /\ op = "extract"
  /\ IF core_boot_classic
     THEN StartAwait("create_fstab")
     ELSE StartAwait("setup_target")
  /\ FlowFrame /\ UNCHANGED pkgv

after_create_fstab ==
  /\ pc = "after" /\ op = "create_fstab"
  /\ StartStep("swap")
  /\ FlowFrame /\ UNCHANGED pkgv

\* Mutant of after_swap: finish_install is left out.
after_swap_skips_finish_install ==
  /\ pc = "after_step" /\ op = "swap"
  /\ StartAwait("setup_target")
  /\ FlowFrame /\ UNCHANGED pkgv

after_swap ==
  /\ pc = "after_step" /\ op = "swap"
  /\ StartAwait("finish_install")
  /\ FlowFrame /\ UNCHANGED pkgv

after_finish_install ==
  /\ pc = "after" /\ op = "finish_install"
  /\ StartAwait("setup_target")
  /\ FlowFrame /\ UNCHANGED pkgv

\* After setup_target the classic path goes through the OEM meta-packages.
after_setup_target ==
  /\ pc = "after" /\ op = "setup_target"
  /\ IF core_boot_classic
     THEN pc' = "reset_partition" /\ UNCHANGED pkg_i
     ELSE pc' = "oem_loop1" /\ pkg_i' = 1
  /\ UNCHANGED <<op, running, trace, pkg_ret, packages, attempt, dl_results,
                 sleeps, unpacks, unpack_result>>
  /\ FlowFrame

after_curthooks ==
  /\ pc = "after_step" /\ op = "curthooks"
  /\ pc' = "reset_partition"
  /\ UNCHANGED <<op, running, trace>>
  /\ FlowFrame /\ UNCHANGED pkgv

\* Mutant of reset_partition_check: the mount is made without looking at rp.
reset_partition_check_always_mounts ==
  /\ pc = "reset_partition"
  /\ \E rp \in BOOLEAN :
       /\ Read("reset_partition", rp)
       /\ StartAwait("mount")
  /\ FlowFrameR /\ UNCHANGED pkgv

\* lines 351-359: the reset partition, mounted for the populate step
reset_partition_check ==
  /\ pc = "reset_partition"
  /\ \E rp \in BOOLEAN :
       /\ Read("reset_partition", rp)
       /\ IF rp
          THEN StartAwait("mount")
          ELSE pc' = "curtin_install_done" /\ UNCHANGED <<op, running, trace>>
  /\ FlowFrameR /\ UNCHANGED pkgv

after_mount ==
  /\ pc = "after" /\ op = "mount"
  /\ mounted' = TRUE
  /\ StartStep("populate recovery")
  /\ UNCHANGED <<cfgv, mergev, sidev, inputs, appv, confv, reports, pending_exc, pkgv, uuv, stopv, tbv>>

\* leaving the scoped mount after the populate step returned
after_populate_recovery ==
  /\ pc = "after_step" /\ op = "populate recovery"
  /\ pc' = "unmount_rp"
  /\ op' = "unmount"
  /\ running' = running \cup {"unmount"}
  /\ trace' = Append(trace, Ev("start", "unmount", 0))
  /\ FlowFrame /\ UNCHANGED pkgv

\* the unmount returned: the exception held back, if any, goes on
unmount_rp_returns ==
  /\ pc = "unmount_rp"
  /\ mounted' = FALSE
  /\ running' = running \ {"unmount"}
  /\ trace' = Append(trace, Ev("ok", "unmount", 0))
  /\ IF pending_exc
     THEN install_except
     ELSE pc' = "curtin_install_done" /\ UNCHANGED reports
  /\ UNCHANGED <<cfgv, mergev, sidev, inputs, appv, confv, op, pending_exc, pkgv, uuv, stopv, tbv>>

unmount_rp_raises ==
  /\ pc = "unmount_rp"
  /\ Raise("unmount")
  /\ UNCHANGED <<cfgv, mergev, sidev, inputs, appv, confv, mounted, pending_exc, pkgv, uuv, stopv, tbv>>

\* curtin_install returned: install, lines 397-399
\* line 397: the state published while waiting for the postinstall trigger
PostinstallWaitState == "WAITING"

curtin_install_returns ==
  /\ pc = "curtin_install_done"
  /\ update_state(PostinstallWaitState)
  /\ pc' = "wait_postinstall"
  /\ trace' = <<>>
  /\ inputs' = {}
  /\ UNCHANGED <<cfgv, mergev, sidev, confv, op, running, failv, pkgv, uuv, stopv, tbv>>

\* ------------------------------------------------- install_package
\* Mutant of attempts_remaining: off by one, never 0 on the last attempt.
attempts_remaining_off_by_one(a) == NumAttempts - a

\* enumerate(reversed(range(3))): the attempts_remaining of attempt a
attempts_remaining(a) == (NumAttempts - 1) - a

\* Mutant of backoff: the factor of the attempt number is wrong.
backoff_factor_two(a) == 1 + a * 2

\* asyncio.sleep(1 + attempt * 3)
backoff(a) == 1 + a * 3

\* download-only invocations made by the current call
Downloads == Len(dl_results) + (IF pc = "pkg_download" THEN 1 ELSE 0)

\* install_package(package) is called; ret is where the caller goes on.
call_install_package(ret) ==
  /\ pkg_ret' = ret
  /\ attempt' = 0
  /\ dl_results' = <<>>
  /\ sleeps' = <<>>
  /\ unpacks' = 0
  /\ unpack_result' = "none"
  /\ pc' = "pkg_download"
  /\ op' = "install_package"
  /\ running' = running \cup {"download"}
  /\ trace' = Append(trace, Ev("start", "install_package", pkg_i))
  /\ UNCHANGED <<pkg_i, packages>>

\* the assume-downloaded invocation is made
start_unpack ==
  /\ pc' = "pkg_unpack"
  /\ unpacks' = unpacks + 1
  /\ running' = (running \ {"download"}) \cup {"unpack"}

\* the download succeeded: break, then unpack
pkg_download_ok ==
  /\ pc = "pkg_download"
  /\ dl_results' = Append(dl_results, TRUE)
  /\ start_unpack
  /\ UNCHANGED <<op, trace, pkg_ret, pkg_i, packages, attempt, sleeps,
                 unpack_result>>
  /\ FlowFrame

\* the download failed (CalledProcessError): sleep, or raise on the last one
download_failed ==
  IF attempts_remaining(attempt) > 0
  THEN /\ sleeps' = Append(sleeps, backoff(attempt))
       /\ pc' = "pkg_sleep"
       /\ running' = running \ {"download"}
       /\ UNCHANGED <<op, trace, reports>>
  ELSE /\ RaiseFrom("install_package", "download")
       /\ UNCHANGED sleeps

pkg_download_fails ==
  /\ pc = "pkg_download"
  /\ dl_results' = Append(dl_results, FALSE)
  /\ download_failed
  /\ UNCHANGED <<pkg_ret, pkg_i, packages, attempt, unpacks, unpack_result>>
  /\ UNCHANGED <<cfgv, mergev, sidev, inputs, appv, confv, mounted, pending_exc, uuv, stopv, tbv>>

\* the sleep is over: the next attempt of the loop, or the loop's end
pkg_sleep_returns ==
  /\ pc = "pkg_sleep"
  /\ IF attempt + 1 < NumAttempts
     THEN /\ attempt' = attempt + 1
          /\ pc' = "pkg_download"
          /\ running' = running \cup {"download"}
          /\ UNCHANGED unpacks
     ELSE start_unpack /\ UNCHANGED attempt
  /\ UNCHANGED <<op, trace, pkg_ret, pkg_i, packages, dl_results, sleeps,
                 unpack_result>>
  /\ FlowFrame

pkg_unpack_ok ==
  /\ pc = "pkg_unpack"
  /\ unpack_result' = "ok"
  /\ pc' = "pkg_return"
  /\ running' = running \ {"unpack"}
  /\ trace' = Append(trace, Ev("ok", "install_package", pkg_i))
  /\ UNCHANGED <<op, pkg_ret, pkg_i, packages, attempt, dl_results, sleeps,
                 unpacks>>
  /\ FlowFrame

\* Mutant of unpack_failed: the unpack invocation is made again.
unpack_failed_retry ==
  /\ unpack_result' = "fail"
  /\ unpacks' = unpacks + 1
  /\ pc' = "pkg_unpack"
  /\ UNCHANGED <<op, running, trace, reports>>

\* the assume-downloaded invocation failed: the exception propagates
unpack_failed ==
  /\ unpack_result' = "fail"
  /\ RaiseFrom("install_package", "unpack")
  /\ UNCHANGED unpacks

pkg_unpack_fails ==
  /\ pc = "pkg_unpack"
  /\ unpack_failed
  /\ UNCHANGED <<pkg_ret, pkg_i, packages, attempt, dl_results, sleeps>>
  /\ UNCHANGED <<cfgv, mergev, sidev, inputs, appv, confv, mounted, pending_exc, uuv, stopv, tbv>>

\* install_package returns to the loop that called it
pkg_return ==
  /\ pc = "pkg_return"
  /\ pc' = pkg_ret
  /\ pkg_i' = pkg_i + 1
  /\ pkg_ret' = ""
  /\ attempt' = 0
  /\ dl_results' = <<>>
  /\ sleeps' = <<>>
  /\ unpacks' = 0
  /\ unpack_result' = "none"
  /\ UNCHANGED <<op, running, trace, packages>>
  /\ FlowFrame

\* ------------------------------------------------- OEM meta-packages
\* Mutant of oem_loop1: the update loop is entered without network too.
oem_loop1_ignores_network ==
  /\ pc = "oem_loop1"
  /\ IF pkg_i <= metapkgs
     THEN call_install_package("oem_loop1")
     ELSE /\ pc' = "oem_update_loop"
          /\ pkg_i' = 1
          /\ UNCHANGED <<op, running, trace, pkg_ret, packages, attempt,
                         dl_results, sleeps, unpacks, unpack_result>>
  /\ FlowFrame

\* lines 319-322
oem_loop1 ==
  /\ pc = "oem_loop1"
  /\ IF pkg_i <= metapkgs
     THEN call_install_package("oem_loop1")
     ELSE IF has_network
          THEN /\ pc' = "oem_update_loop"
               /\ pkg_i' = 1
               /\ UNCHANGED <<op, running, trace, pkg_ret, packages, attempt,
                              dl_results, sleeps, unpacks, unpack_result>>
          ELSE StartStep("curthooks") /\ UNCHANGED pkgv
  /\ FlowFrame

\* lines 327-336
oem_update_loop ==
  /\ pc = "oem_update_loop"
  /\ IF pkg_i <= metapkgs
     THEN StartAwait("apt_update") /\ UNCHANGED pkg_i
     ELSE pc' = "oem_loop2" /\ pkg_i' = 1 /\ UNCHANGED <<op, running, trace>>
  /\ UNCHANGED <<pkg_ret, packages, attempt, dl_results, sleeps, unpacks,
                 unpack_result>>
  /\ FlowFrame

\* Mutant of after_apt_update: the reinstalls start after the first update.
after_apt_update_then_reinstall ==
  /\ pc = "after" /\ op = "apt_update"
  /\ pc' = "oem_loop2"
  /\ pkg_i' = 1
  /\ UNCHANGED <<op, running, trace, pkg_ret, packages, attempt, dl_results,
                 sleeps, unpacks, unpack_result>>
  /\ FlowFrame

\* lines 327-336: the next package's turn
after_apt_update ==
  /\ pc = "after" /\ op = "apt_update"
  /\ pc' = "oem_update_loop"
  /\ pkg_i' = pkg_i + 1
  /\ UNCHANGED <<op, running, trace, pkg_ret, packages, attempt, dl_results,
                 sleeps, unpacks, unpack_result>>
  /\ FlowFrame

\* lines 340-346
oem_loop2 ==
  /\ pc = "oem_loop2"
  /\ IF pkg_i <= metapkgs
     THEN call_install_package("oem_loop2")
     ELSE StartStep("curthooks") /\ UNCHANGED pkgv
  /\ FlowFrame

\* ------------------------------------------------- postinstall
\* model.wait_postinstall() returns: install, lines 401-403
wait_postinstall_returns ==
  /\ pc = "wait_postinstall"
  /\ update_state("RUNNING")
  /\ StartAwait("configure_cloud_init")
  /\ UNCHANGED <<cfgv, mergev, sidev, inputs, confv, failv, pkgv, uuv, stopv, tbv>>

after_configure_cloud_init ==
  /\ pc = "after" /\ op = "configure_cloud_init"
  /\ StartAwait("get_target_packages")
  /\ FlowFrame /\ UNCHANGED pkgv

\* get_target_packages returned the list of packages to install
after_get_target_packages ==
  /\ pc = "after" /\ op = "get_target_packages"
  /\ \E n \in 0..MaxPackages : packages' = n
  /\ pkg_i' = 1
  /\ pc' = "pkg_loop"
  /\ UNCHANGED <<op, running, trace, pkg_ret, attempt, dl_results, sleeps,
                 unpacks, unpack_result>>
  /\ FlowFrame

\* lines 425-433: the packages, then the drivers if model.drivers.do_install
pkg_loop ==
  /\ pc = "pkg_loop"
  /\ IF pkg_i <= packages
     THEN call_install_package("pkg_loop")
     ELSE /\ \E do_install \in BOOLEAN :
               IF do_install
               THEN StartAwait("install_drivers")
               ELSE pc' = "uu_check" /\ UNCHANGED <<op, running, trace>>
          /\ UNCHANGED pkgv
  /\ FlowFrame

after_install_drivers ==
  /\ pc = "after" /\ op = "install_drivers"
  /\ pc' = "uu_check"
  /\ UNCHANGED <<op, running, trace>>
  /\ FlowFrame /\ UNCHANGED pkgv

\* ------------------------------------------------- run_unattended_upgrades
\* Mutant of UpgradesWanted: the network is not looked at.
UpgradesWanted_always == TRUE

\* line 435: if self.model.network.has_network
UpgradesWanted == has_network

\* lines 435-438 and 494-512: publish UU_RUNNING, write the apt fragment, set
\* the session's context and start the subprocess; without network go on to
\* restore_apt_config.
uu_check ==
  /\ pc = "uu_check"
  /\ IF UpgradesWanted
     THEN /\ update_state("UU_RUNNING")
          /\ unattended_upgrades_ctx' = "ctx"
          /\ pc' = "uu_start"
          /\ op' = "unattended-upgrades"
          /\ running' = running \cup {"unattended-upgrades"}
          /\ trace' = Append(trace, Ev("start", "unattended-upgrades", 0))
          /\ UNCHANGED <<unattended_upgrades_cmd, uu_proc, description_failed>>
     ELSE /\ StartAwait("restore_apt_config")
          /\ UNCHANGED <<appv, uuv>>
  /\ UNCHANGED <<cfgv, mergev, sidev, inputs, confv, failv, pkgv, stopv, tbv>>

\* start_curtin_command returned the running command
uu_start_returns ==
  /\ pc = "uu_start"
  /\ unattended_upgrades_cmd' = "cmd"
  /\ uu_proc' = "running"
  /\ pc' = "uu_wait"
  /\ UNCHANGED <<unattended_upgrades_ctx, description_failed>>
  /\ UNCHANGED <<cfgv, mergev, sidev, inputs, appv, confv, op, running, trace, failv, pkgv, stopv, tbv>>

\* start_curtin_command raised: the session's context is left as it is
uu_start_raises ==
  /\ pc = "uu_start"
  /\ Raise("unattended-upgrades")
  /\ UNCHANGED <<cfgv, mergev, sidev, inputs, appv, confv, mounted, pending_exc, pkgv, uuv, stopv, tbv>>

\* the subprocess exits, by itself or after terminate()
uu_proc_exits ==
  /\ Suspended
  /\ uu_proc \in {"running", "terminating"}
  /\ \E rc \in {"exit_zero", "exit_nonzero"} : uu_proc' = rc
  /\ UNCHANGED <<unattended_upgrades_ctx, unattended_upgrades_cmd,
                 description_failed>>
  /\ UNCHANGED <<cfgv, mergev, sidev, inputs, appv, confv, flowv, failv, pkgv, stopv, tbv>>

\* Mutant of uu_wait_returns: the CalledProcessError of wait() is not caught.
uu_wait_propagates_error ==
  /\ pc = "uu_wait"
  /\ uu_proc \in {"exit_zero", "exit_nonzero"}
  /\ IF uu_proc = "exit_nonzero"
     THEN /\ Raise("unattended-upgrades")
          /\ UNCHANGED <<mounted, pending_exc, uuv>>
     ELSE /\ description_failed' = FALSE
          /\ unattended_upgrades_cmd' = None
          /\ unattended_upgrades_ctx' = None
          /\ pc' = "after"
          /\ running' = running \ {"unattended-upgrades"}
          /\ trace' = Append(trace, Ev("ok", "unattended-upgrades", 0))
          /\ UNCHANGED <<op, uu_proc, failv>>
  /\ UNCHANGED <<cfgv, mergev, sidev, inputs, appv, confv, pkgv, stopv, tbv>>

\* Mutant of uu_wait_returns: the wait is not left once a cancel was accepted.
uu_wait_stuck_when_cancelling ==
  /\ pc = "uu_wait"
  /\ state # "UU_CANCELLING"
  /\ uu_proc \in {"exit_zero", "exit_nonzero"}
  /\ description_failed' = (uu_proc = "exit_nonzero")
  /\ unattended_upgrades_cmd' = None
  /\ unattended_upgrades_ctx' = None
  /\ pc' = "after"
  /\ running' = running \ {"unattended-upgrades"}
  /\ trace' = Append(trace, Ev(IF uu_proc = "exit_zero" THEN "ok" ELSE "exit_nonzero",
                               "unattended-upgrades", 0))
  /\ UNCHANGED <<op, uu_proc>>
  /\ UNCHANGED <<cfgv, mergev, sidev, inputs, appv, confv, failv, pkgv, stopv, tbv>>

\* lines 513-519: wait() returned or raised CalledProcessError; the session
\* fields are cleared
uu_wait_returns ==
  /\ pc = "uu_wait"
  /\ uu_proc \in {"exit_zero", "exit_nonzero"}
  /\ description_failed' = (uu_proc = "exit_nonzero")
  /\ unattended_upgrades_cmd' = None
  /\ unattended_upgrades_ctx' = None
  /\ pc' = "after"
  /\ running' = running \ {"unattended-upgrades"}
  /\ trace' = Append(trace, Ev(IF uu_proc = "exit_zero" THEN "ok" ELSE "exit_nonzero",
                               "unattended-upgrades", 0))
  /\ UNCHANGED <<op, uu_proc>>
  /\ UNCHANGED <<cfgv, mergev, sidev, inputs, appv, confv, failv, pkgv, stopv, tbv>>

\* Mutant of after_unattended_upgrades: the apt configuration is left as
\* the upgrade had it.
after_unattended_upgrades_without_restore ==
  /\ pc = "after" /\ op = "unattended-upgrades"
  /\ update_state("DONE")
  /\ pc' = "done"
  /\ UNCHANGED <<cfgv, mergev, sidev, inputs, confv, op, running, trace, failv, pkgv, uuv, stopv, tbv>>

\* line 439
after_unattended_upgrades ==
  /\ pc = "after" /\ op = "unattended-upgrades"
  /\ StartAwait("restore_apt_config")
  /\ FlowFrame /\ UNCHANGED pkgv

\* lines 440-446 and 405: join the domain if asked, then DONE
after_restore_apt_config ==
  /\ pc = "after" /\ op = "restore_apt_config"
  /\ \E do_join \in BOOLEAN :
       IF do_join
       THEN StartAwait("join_domain") /\ UNCHANGED appv
       ELSE /\ update_state("DONE")
            /\ pc' = "done"
            /\ UNCHANGED <<op, running, trace>>
  /\ UNCHANGED <<cfgv, mergev, sidev, inputs, confv, failv, pkgv, uuv, stopv, tbv>>

after_join_domain ==
  /\ pc = "after" /\ op = "join_domain"
  /\ update_state("DONE")
  /\ pc' = "done"
  /\ UNCHANGED <<cfgv, mergev, sidev, inputs, confv, op, running, trace, failv, pkgv, uuv, stopv, tbv>>

\* ------------------------------------------------- stop_uu
\* Mutant of stop_uu_observes: the state is not looked at.
stop_uu_observes_any(st) == TRUE

\* line 98: if self.app.state == ApplicationState.UU_RUNNING
stop_uu_observes(st) == st = "UU_RUNNING"

\* stop_uu: publish UU_CANCELLING and run stop_unattended_upgrades in the
\* background (run_bg_task creates the task; it starts later)
stop_uu ==
  /\ Suspended
  /\ stop_uu_observes(state)
  /\ update_state("UU_CANCELLING")
  /\ stop_task' = "scheduled"
  /\ UNCHANGED <<stop_only_issued, terminate_calls, stop_uu_disregarded>>
  /\ UNCHANGED <<cfgv, mergev, sidev, inputs, confv, flowv, failv, pkgv, uuv, tbv>>

\* Mutant of stop_uu_ignored: the request is kept and the cancel task made.
stop_uu_ignored_remembers ==
  /\ Suspended
  /\ ~stop_uu_observes(state)
  /\ stop_uu_disregarded' = TRUE
  /\ stop_task' = "scheduled"
  /\ UNCHANGED <<stop_only_issued, terminate_calls>>
  /\ UNCHANGED <<cfgv, mergev, sidev, inputs, appv, confv, flowv, failv, pkgv, uuv, tbv>>

\* stop_uu in any other state does nothing
stop_uu_ignored ==
  /\ Suspended
  /\ ~stop_uu_observes(state)
  /\ stop_uu_disregarded' = TRUE
  /\ UNCHANGED <<stop_task, stop_only_issued, terminate_calls>>
  /\ UNCHANGED <<cfgv, mergev, sidev, inputs, appv, confv, flowv, failv, pkgv, uuv, tbv>>

\* stop_unattended_upgrades starts: self.unattended_upgrades_ctx.parent is
\* read and the stop-only command is started
stop_task_begins ==
  /\ Suspended
  /\ stop_task = "scheduled"
  /\ IF unattended_upgrades_ctx = None
     THEN stop_task' = "AttributeError" /\ UNCHANGED stop_only_issued
     ELSE stop_task' = "running" /\ stop_only_issued' = stop_only_issued + 1
  /\ UNCHANGED <<terminate_calls, stop_uu_disregarded>>
  /\ UNCHANGED <<cfgv, mergev, sidev, inputs, appv, confv, flowv, failv, pkgv, uuv, tbv>>

\* Mutant of stop_task_cmd_returns: terminate() is called outside dry-run too.
stop_task_cmd_returns_always_terminates ==
  /\ Suspended
  /\ stop_task = "running"
  /\ stop_task' = "done"
  /\ IF unattended_upgrades_cmd # None
     THEN /\ terminate_calls' = terminate_calls + 1
          /\ uu_proc' = IF uu_proc = "running" THEN "terminating" ELSE uu_proc
     ELSE UNCHANGED <<terminate_calls, uu_proc>>
  /\ UNCHANGED <<stop_only_issued, stop_uu_disregarded, unattended_upgrades_ctx,
                 unattended_upgrades_cmd, description_failed>>
  /\ UNCHANGED <<cfgv, mergev, sidev, inputs, appv, confv, flowv, failv, pkgv, tbv>>

\* lines 531-533: the stop-only command returned; in dry-run the subprocess
\* is terminated if the session still has its command
stop_task_cmd_returns ==
  /\ Suspended
  /\ stop_task = "running"
  /\ stop_task' = "done"
  /\ IF dry_run /\ unattended_upgrades_cmd # None
     THEN /\ terminate_calls' = terminate_calls + 1
          /\ uu_proc' = IF uu_proc = "running" THEN "terminating" ELSE uu_proc
     ELSE UNCHANGED <<terminate_calls, uu_proc>>
  /\ UNCHANGED <<stop_only_issued, stop_uu_disregarded, unattended_upgrades_ctx,
                 unattended_upgrades_cmd, description_failed>>
  /\ UNCHANGED <<cfgv, mergev, sidev, inputs, appv, confv, flowv, failv, pkgv, tbv>>

\* the stop-only command exited with non-zero: the task ends with the error
stop_task_cmd_fails ==
  /\ Suspended
  /\ stop_task = "running"
  /\ stop_task' = "CalledProcessError"
  /\ UNCHANGED <<stop_only_issued, terminate_calls, stop_uu_disregarded>>
  /\ UNCHANGED <<cfgv, mergev, sidev, inputs, appv, confv, flowv, failv, pkgv, uuv, tbv>>

\* ------------------------------------------------- specification
Next ==
  \/ start
  \/ wait_install_returns
  \/ confirm
  \/ wait_confirmation_true
  \/ wait_confirmation_false
  \/ wait_confirmation_raises
  \/ await_returns
  \/ await_raises
  \/ after_configure_apt
  \/ after_abroadcast
  \/ after_unmount_target
  \/ run_curtin_step_ok
  \/ run_curtin_step_fails
  \/ curtin_install_begin
  \/ after_initial
  \/ after_partitioning
  \/ after_setup_encryption
  \/ after_formatting
  \/ after_extract
  \/ after_create_fstab
  \/ after_swap
  \/ after_finish_install
  \/ after_setup_target
  \/ after_curthooks
  \/ reset_partition_check
  \/ after_mount
  \/ after_populate_recovery
  \/ unmount_rp_returns
  \/ unmount_rp_raises
  \/ curtin_install_returns
  \/ pkg_download_ok
  \/ pkg_download_fails
  \/ pkg_sleep_returns
  \/ pkg_unpack_ok
  \/ pkg_unpack_fails
  \/ pkg_return
  \/ oem_loop1
  \/ oem_update_loop
  \/ after_apt_update
  \/ oem_loop2
  \/ wait_postinstall_returns
  \/ after_configure_cloud_init
  \/ after_get_target_packages
  \/ pkg_loop
  \/ after_install_drivers
  \/ uu_check
  \/ uu_start_returns
  \/ uu_start_raises
  \/ uu_proc_exits
  \/ uu_wait_returns
  \/ after_unattended_upgrades
  \/ after_restore_apt_config
  \/ after_join_domain
  \/ stop_uu
  \/ stop_uu_ignored
  \/ stop_task_begins
  \/ stop_task_cmd_returns
  \/ stop_task_cmd_fails
  \/ \E line \in LogLines : log_event(line)

Spec == Init /\ [][Next]_vars

SpecOem == InitOem /\ [][Next]_vars

\* What the install task does by itself: every step of the flow except the
\* callbacks that come from outside (the client, the journal, stop_uu and its
\* background task, the exit of the subprocess).
InstallTask ==
  \/ start \/ wait_install_returns
  \/ wait_confirmation_true \/ wait_confirmation_false
  \/ wait_confirmation_raises
  \/ await_returns \/ await_raises
  \/ after_configure_apt \/ after_abroadcast \/ after_unmount_target
  \/ run_curtin_step_ok \/ run_curtin_step_fails
  \/ curtin_install_begin \/ after_initial \/ after_partitioning
  \/ after_setup_encryption \/ after_formatting \/ after_extract
  \/ after_create_fstab \/ after_swap \/ after_finish_install
  \/ after_setup_target \/ after_curthooks \/ reset_partition_check
  \/ after_mount \/ after_populate_recovery
  \/ unmount_rp_returns \/ unmount_rp_raises \/ curtin_install_returns
  \/ pkg_download_ok \/ pkg_download_fails \/ pkg_sleep_returns
  \/ pkg_unpack_ok \/ pkg_unpack_fails \/ pkg_return
  \/ oem_loop1 \/ oem_update_loop \/ after_apt_update \/ oem_loop2
  \/ wait_postinstall_returns \/ after_configure_cloud_init
  \/ after_get_target_packages \/ pkg_loop \/ after_install_drivers
  \/ uu_check \/ uu_start_returns \/ uu_start_raises \/ uu_wait_returns
  \/ after_unattended_upgrades \/ after_restore_apt_config
  \/ after_join_domain

\* The event loop runs a task that can run, every awaited operation ends
\* (by returning or by raising), and the subprocess exits.
SpecFair ==
  /\ Init /\ [][Next]_vars
  /\ WF_vars(InstallTask)
  /\ WF_vars(uu_proc_exits)

\* =================================================================
\* Claims
\* =================================================================
Range(seq) == {seq[i] : i \in DOMAIN seq}

\* the places of event e in the trace
At(e) == {i \in DOMAIN trace : trace[i] = e}

\* the stop_unattended_upgrades task has ended, normally or with an error
StopTaskEnded == stop_task \in {"done", "AttributeError", "CalledProcessError"}

\* C1: under every interleaving of stop_uu with the install flow, the cancel
\* task never runs against a session whose context the cleanup has already
\* set to None (it never fails on unattended_upgrades_ctx being None).
C1_cancel_never_sees_cleared_session == stop_task # "AttributeError"

\* C2: a stop_uu accepted in UU_RUNNING makes the stop-only shutdown command
\* be issued exactly once in the run: never twice, and once when the cancel
\* task has ended.
C2_shutdown_issued_exactly_once ==
  /\ stop_only_issued <= 1
  /\ StopTaskEnded => stop_only_issued = 1

\* The sequence of published states as a word of the automaton whose state
\* after RUNNING is entered by publishing wait_state.
StateOrder(q, s, wait_state) ==
  CASE q = "start" /\ s = "WAITING" -> "waiting"
    [] q = "waiting" /\ s = "NEEDS_CONFIRMATION" -> "needs_confirmation"
    [] q = "needs_confirmation" /\ s = "WAITING" -> "waiting"
    [] q = "needs_confirmation" /\ s = "RUNNING" -> "running"
    [] q = "running" /\ s = wait_state -> "waiting_postinstall"
    [] q = "waiting_postinstall" /\ s = "RUNNING" -> "running_postinstall"
    [] q = "running_postinstall" /\ s = "UU_RUNNING" -> "uu_running"
    [] q = "running_postinstall" /\ s = "DONE" -> "done"
    [] q = "uu_running" /\ s = "UU_CANCELLING" -> "uu_cancelling"
    [] q = "uu_running" /\ s = "DONE" -> "done"
    [] q = "uu_cancelling" /\ s = "DONE" -> "done"
    [] OTHER -> "reject"

RECURSIVE OrderAfter(_, _, _)
OrderAfter(q, seq, wait_state) ==
  IF seq = <<>> THEN q
  ELSE OrderAfter(StateOrder(q, Head(seq), wait_state), Tail(seq), wait_state)

\* Every automaton state but "reject" lies on a path to "done", so a word is a
\* prefix of a complete sequence exactly when it is not rejected.
IsPrefixOfOrder(seq, wait_state) == OrderAfter("start", seq, wait_state) # "reject"

\* C3 as stated: the published states are a prefix of WAITING,
\* (NEEDS_CONFIRMATION, WAITING)*, NEEDS_CONFIRMATION, RUNNING,
\* WAITING_POSTINSTALL, RUNNING, [UU_RUNNING [UU_CANCELLING]], DONE, with
\* WAITING never published after RUNNING.
C3_order_with_distinct_postinstall_wait ==
  IsPrefixOfOrder(published, "WAITING_POSTINSTALL")

\* C3 amended: the published states are a prefix of WAITING,
\* (NEEDS_CONFIRMATION, WAITING)*, NEEDS_CONFIRMATION, RUNNING, WAITING,
\* RUNNING, [UU_RUNNING [UU_CANCELLING]], DONE: the wait for the postinstall
\* trigger publishes WAITING again, so WAITING follows RUNNING exactly there,
\* and no WAITING_POSTINSTALL state is ever published.
C3_order_with_waiting_again ==
  /\ IsPrefixOfOrder(published, "WAITING")
  /\ "WAITING_POSTINSTALL" \notin Range(published)

C3_witness ==
  /\ pc = "done"
  /\ denials >= 1
  /\ "UU_CANCELLING" \in Range(published)

\* C4: when the install flow has raised, DONE was not published, exactly one
\* report was made and it is an INSTALL_FAIL report (none is made otherwise),
\* the exception went on to the caller, and the report has the Traceback
\* field exactly when the extractor held a line at that moment.
C4_failure_is_reported_once ==
  /\ [](/\ pc = "raised" => /\ "DONE" \notin Range(published)
                            /\ Len(reports) = 1
                            /\ reports[1].kind = "INSTALL_FAIL"
        /\ pc # "raised" => reports = <<>>
        /\ (\E i \in DOMAIN trace : trace[i].k \in {"fail", "device_map_error"})
             => pc = "raised" \/ (pc = "unmount_rp" /\ pending_exc))
  /\ [][pc # "raised" /\ pc' = "raised" =>
          ("Traceback" \in reports'[1].kw <=> traceback # <<>>)]_vars

C4_witness ==
  /\ pc = "raised"
  /\ Len(reports) = 1
  /\ "Traceback" \in reports[1].kw
  /\ "RUNNING" \in Range(published)

\* C5: a download phase that fails twice and then succeeds makes exactly
\* three download-only invocations, sleeps exactly twice, 1 s then 4 s, each
\* sleep between a failure and the next attempt, and makes the unpack
\* invocation exactly once.
C5_two_failures_then_success ==
  /\ dl_results = <<FALSE, FALSE, TRUE>> =>
       /\ Downloads = 3
       /\ sleeps = <<1, 4>>
       /\ unpacks = 1
  /\ pc = "pkg_sleep" =>
       /\ Len(sleeps) = Len(dl_results)
       /\ \A i \in DOMAIN dl_results : ~dl_results[i]
  /\ pc = "pkg_download" => Len(sleeps) = Len(dl_results)

C5_witness ==
  /\ dl_results = <<FALSE, FALSE, TRUE>>
  /\ pc = "pkg_return"

\* C6: one call makes at most three download-only invocations; after three
\* failures the failure propagates with no third sleep and no unpack; a
\* success at attempt k ends the download phase with exactly k invocations.
C6_at_most_three_downloads ==
  /\ Downloads <= 3
  /\ dl_results = <<FALSE, FALSE, FALSE>> =>
       /\ pc = "raised"
       /\ Len(sleeps) = 2
       /\ unpacks = 0
       /\ trace[Len(trace)] = Ev("fail", "install_package", pkg_i)
  /\ \A k \in DOMAIN dl_results :
       dl_results[k] => /\ k = Len(dl_results)
                        /\ Downloads = k
                        /\ Len(sleeps) = k - 1

C6_witness ==
  /\ dl_results = <<FALSE, FALSE, FALSE>>
  /\ pc = "raised"

\* C7: the unpack invocation is made at most once per call; when it fails the
\* failure propagates at once and the call makes no further download or
\* unpack invocation.
C7_unpack_not_retried ==
  /\ [](/\ unpacks <= 1
        /\ unpack_result = "fail" =>
             /\ pc = "raised"
             /\ unpacks = 1
             /\ running = {}
             /\ trace[Len(trace)] = Ev("fail", "install_package", pkg_i))
  /\ [][unpack_result = "fail" => UNCHANGED <<dl_results, unpacks, pc>>]_vars

C7_witness ==
  /\ unpack_result = "fail"
  /\ pc = "raised"
  /\ dl_results = <<FALSE, TRUE>>

\* C8: on a core-boot-classic target with TPM requested setup_encryption is
\* invoked exactly once, after the partitioning step returned successfully
\* and before the formatting step is invoked; when TPM is not requested it is
\* never invoked.
C8_encryption_between_partitioning_and_formatting ==
  LET enc == At(Ev("start", "setup_encryption", 0))
      fmt == At(Ev("start", "formatting", 0))
  IN  /\ Cardinality(enc) <= 1
      /\ \A i \in enc :
           /\ \E j \in 1..(i - 1) : trace[j] = Ev("ok", "partitioning", 0)
           /\ \A j \in fmt : i < j
      /\ "use_tpm" \notin inputs => enc = {}
      /\ {"core_boot_classic", "use_tpm"} \subseteq inputs =>
           /\ Cardinality(enc) = 1
           /\ \A j \in fmt :
                \E i \in 1..(j - 1) : trace[i] = Ev("ok", "setup_encryption", 0)

C8_witness ==
  /\ {"core_boot_classic", "use_tpm"} \subseteq inputs
  /\ At(Ev("ok", "formatting", 0)) # {}

\* C9: the steps of curtin_install are strictly sequential: a step's tool
\* invocation starts only when the operation before it has returned
\* successfully, and never are two operations of the flow in progress.
C9_steps_strictly_sequential ==
  /\ Cardinality(running) <= 1
  /\ \A i \in DOMAIN trace :
       (trace[i].k = "start" /\ trace[i].op \in CurtinSteps /\ i > 1) =>
         trace[i - 1].k \in {"ok", "update_devices"}
  /\ pc = "curtin_step" => running = {op}

C9_witness ==
  /\ pc = "curtin_step"
  /\ op = "curthooks"
  /\ At(Ev("ok", "install_package", 1)) # {}

\* C10: a non-zero exit of the tool in a curtin step is not retried: the
\* failed step was invoked exactly once, no step or other operation of the
\* sequence is started after it (only the reset partition is unmounted),
\* update_devices is not called for it, and the failure reaches install.
C10_step_failure_not_retried ==
  \A i \in DOMAIN trace :
    (trace[i].k = "fail" /\ trace[i].op \in CurtinSteps) =>
      /\ Cardinality(At(Ev("start", trace[i].op, 0))) = 1
      /\ \A j \in (i + 1)..Len(trace) :
           trace[j].k = "start" => trace[j].op = "unmount"
      /\ At(Ev("update_devices", trace[i].op, 0)) = {}
      /\ \/ pc = "raised" /\ Len(reports) = 1
         \/ pc = "unmount_rp" /\ pending_exc

C10_witness ==
  /\ pc = "raised"
  /\ At(Ev("fail", "formatting", 0)) # {}
  /\ At(Ev("update_devices", "partitioning", 0)) # {}

\* the published states before the first RUNNING
BeforeRunning ==
  LET first == {i \in DOMAIN published :
                  /\ published[i] = "RUNNING"
                  /\ \A j \in 1..(i - 1) : published[j] # "RUNNING"}
  IN  IF first = {} THEN published
      ELSE SubSeq(published, 1, (CHOOSE i \in first : TRUE) - 1)

\* C11: every False answer of wait_confirmation publishes WAITING and puts
\* the flow back to waiting for the install trigger before
\* NEEDS_CONFIRMATION is published again; RUNNING is published only after a
\* wait_confirmation that answered True, and no operation of the install
\* (apt configuration, unmount, curtin steps) is started before RUNNING.
C11_denial_returns_to_waiting ==
  /\ [](/\ \A i \in DOMAIN BeforeRunning :
             BeforeRunning[i] = IF i % 2 = 1 THEN "WAITING"
                                ELSE "NEEDS_CONFIRMATION"
        /\ "RUNNING" \notin Range(published) =>
             /\ Len(published) \in {2 * denials, 2 * denials + 1, 2 * denials + 2}
             /\ pc = "wait_install" => Len(published) = 2 * denials + 1
             /\ pc = "wait_confirmation" => Len(published) = 2 * denials + 2
             /\ running = {}
             /\ ~mounted
             /\ \A i \in DOMAIN trace : trace[i].k # "start"
        /\ "RUNNING" \in Range(published) =>
             /\ confirmation
             /\ BeforeRunning[Len(BeforeRunning)] = "NEEDS_CONFIRMATION")
  /\ [][(pc = "wait_confirmation" /\ state' = "RUNNING") => confirmation]_vars
  /\ [][denials' # denials => /\ pc = "wait_confirmation"
                              /\ state' = "WAITING"
                              /\ pc' = "wait_install"]_vars

C11_witness ==
  /\ denials >= 1
  /\ state = "RUNNING"
  /\ pc = "await" /\ op = "configure_apt"
  /\ Len(published) = 2 * denials + 3

\* C12 as stated: in every non-interactive run the install has confirmed
\* itself when NEEDS_CONFIRMATION is published, and in an interactive run
\* RUNNING is published only after an explicit confirmation.
C12_noninteractive_confirms_itself ==
  /\ (~interactive /\ state = "NEEDS_CONFIRMATION") => confirmation
  /\ (interactive /\ "RUNNING" \in Range(published)) => client_confirmed

\* C12 amended: in a non-interactive run with 'autoinstall' on the kernel
\* command line the install has confirmed itself when NEEDS_CONFIRMATION is
\* published, so it goes on to RUNNING with no confirmation from outside; in
\* every other run (interactive, or non-interactive without 'autoinstall' on
\* the kernel command line) RUNNING is published only after an explicit
\* confirmation.
C12_autoinstall_run_confirms_itself ==
  /\ (~interactive /\ autoinstall /\ state = "NEEDS_CONFIRMATION") => confirmation
  /\ ((interactive \/ ~autoinstall) /\ "RUNNING" \in Range(published))
       => client_confirmed
  /\ ((interactive \/ ~autoinstall) /\ state = "NEEDS_CONFIRMATION"
        /\ ~client_confirmed) => ~confirmation

C12_witness ==
  /\ ~interactive /\ autoinstall
  /\ ~client_confirmed
  /\ Len(published) = 3
  /\ published[2] = "NEEDS_CONFIRMATION" /\ published[3] = "RUNNING"

\* C13: a non-zero exit of the unattended-upgrade subprocess is no failure of
\* the install: run_unattended_upgrades returns normally with the context
\* description marked as failed and makes no report, restore_apt_config is
\* the next operation, and DONE is published when the remaining operations
\* succeed (the flow raises only if one of those raised).
C13_upgrade_failure_is_not_fatal ==
  /\ [](\A i \in At(Ev("exit_nonzero", "unattended-upgrades", 0)) :
          /\ description_failed
          /\ i < Len(trace) =>
               trace[i + 1] = Ev("start", "restore_apt_config", 0)
          /\ pc = "raised" =>
               /\ trace[Len(trace)].k = "fail"
               /\ trace[Len(trace)].op \in {"restore_apt_config", "join_domain"}
          /\ pc # "raised" => reports = <<>>
          /\ pc = "done" =>
               /\ state = "DONE"
               /\ \E j \in (i + 1)..Len(trace) :
                    trace[j] = Ev("ok", "restore_apt_config", 0))
  /\ [][(pc = "uu_wait" /\ uu_proc = "exit_nonzero" /\ pc' # pc) =>
          /\ pc' = "after"
          /\ description_failed'
          /\ reports' = reports]_vars

C13_witness ==
  /\ pc = "done"
  /\ state = "DONE"
  /\ reports = <<>>
  /\ description_failed
  /\ At(Ev("exit_nonzero", "unattended-upgrades", 0)) # {}

\* C14: the supervisor terminates the subprocess only in dry-run mode, only
\* in the cancel task, only when the stop-only command has been issued and
\* has returned, and at most once; outside dry-run mode it never does.
C14_graceful_stop_before_terminate ==
  /\ [](/\ terminate_calls > 0 => /\ dry_run
                                  /\ stop_only_issued >= 1
                                  /\ stop_task = "done"
        /\ ~dry_run => terminate_calls = 0
        /\ uu_proc = "terminating" => terminate_calls > 0
        /\ terminate_calls <= stop_only_issued)
  /\ [][terminate_calls' # terminate_calls =>
          /\ stop_task = "running" /\ stop_task' = "done"
          /\ stop_only_issued' = stop_only_issued
          /\ stop_only_issued >= 1]_vars

C14_witness ==
  /\ dry_run
  /\ terminate_calls = 1
  /\ stop_only_issued = 1
  /\ uu_proc = "terminating"

\* C15: once UU_CANCELLING is published the install always ends: given that
\* the subprocess exits, the state becomes DONE unless one of the remaining
\* operations raises, whatever becomes of the stop-only command.
C15_cancelling_leads_to_done ==
  (state = "UU_CANCELLING") ~> (state = "DONE" \/ pc = "raised")

C15_witness ==
  /\ state = "DONE"
  /\ "UU_CANCELLING" \in Range(published)
  /\ stop_task = "CalledProcessError"

\* C16: the session fields are set only while run_unattended_upgrades is in
\* progress: both are None before it starts and both are None once it has
\* ended, however it ended.
C16_session_fields_only_while_active ==
  "unattended-upgrades" \notin running =>
    /\ unattended_upgrades_ctx = None
    /\ unattended_upgrades_cmd = None

\* the trace is the history of a curtin_install
InCurtin == trace # <<>> /\ trace[1] = Ev("start", "initial", 0)

\* operations of the handling of the reset partition
ResetPartitionOps == {"mount", "populate recovery", "unmount"}

\* the operations curtin_install started before the reset partition's turn,
\* in order, each with its package index
StartedOps ==
  LET st == SelectSeq(trace, LAMBDA e : e.k = "start" /\ e.op \notin ResetPartitionOps)
  IN  [i \in 1..Len(st) |-> <<st[i].op, st[i].n>>]

IsPrefix(a, b) == Len(a) <= Len(b) /\ SubSeq(b, 1, Len(a)) = a

\* every operation of the path that was started after another one was
\* started when that one had returned successfully
EachAfterPrevious ==
  \A i \in DOMAIN trace :
    (trace[i].k = "start" /\ trace[i].op \notin ResetPartitionOps /\ i > 1) =>
      trace[i - 1].k \in {"ok", "update_devices"}

PerPackage(o, n) == [i \in 1..n |-> <<o, i>>]

\* the classic path in full, for n OEM meta-packages
ClassicOrder(n, net) ==
  <<<<"initial", 0>>, <<"partitioning", 0>>, <<"extract", 0>>,
    <<"setup_target", 0>>>>
  \o PerPackage("install_package", n)
  \o (IF net
      THEN PerPackage("apt_update", n) \o PerPackage("install_package", n)
      ELSE <<>>)
  \o <<<<"curthooks", 0>>>>

\* the core-boot-classic path in full
CoreBootClassicOrder(tpm) ==
  <<<<"initial", 0>>, <<"partitioning", 0>>>>
  \o (IF tpm THEN <<<<"setup_encryption", 0>>>> ELSE <<>>)
  \o <<<<"formatting", 0>>, <<"extract", 0>>, <<"create_fstab", 0>>,
       <<"swap", 0>>, <<"finish_install", 0>>, <<"setup_target", 0>>>>

\* the configuration events of step name
ConfigsOf(name) == {i \in DOMAIN trace : trace[i].k = "config" /\ trace[i].op = name}

\* C17: on a classic target curtin_install goes, after its initial step,
\* through the partitioning step, the extract step, setup_target, the install
\* of every OEM meta-package, with network the apt-get update and then the
\* reinstall of every OEM meta-package, and the curthooks step, in this order
\* and each started when the one before it had returned; the whole sequence
\* has been run when curtin_install comes to the reset partition.
C17_classic_order ==
  (InCurtin /\ ~core_boot_classic) =>
    /\ IsPrefix(StartedOps, ClassicOrder(metapkgs, has_network))
    /\ EachAfterPrevious
    /\ \A i \in At(Ev("start", "curthooks", 0)) :
         /\ Cardinality({j \in 1..(i - 1) : /\ trace[j].k = "ok"
                                            /\ trace[j].op = "install_package"})
              = metapkgs * (IF has_network THEN 2 ELSE 1)
         /\ Cardinality({j \in 1..(i - 1) : /\ trace[j].k = "ok"
                                            /\ trace[j].op = "apt_update"})
              = (IF has_network THEN metapkgs ELSE 0)
    /\ \A i \in DOMAIN trace :
         (trace[i].k = "start" /\ trace[i].op = "install_package") =>
           \E j \in 1..(i - 1) : trace[j] = Ev("ok", "setup_target", 0)
    /\ pc \in {"reset_partition", "curtin_install_done"} =>
         StartedOps = ClassicOrder(metapkgs, has_network)

C17_witness ==
  /\ InCurtin /\ ~core_boot_classic
  /\ has_network /\ metapkgs >= 1
  /\ pc = "curtin_install_done"
  /\ At(Ev("ok", "apt_update", metapkgs)) # {}

\* C18: on a core-boot-classic target curtin_install goes, after its initial
\* step, through the partitioning step in DEVICES mode, setup_encryption
\* (only with TPM), the formatting step in FORMAT_MOUNT mode, the extract
\* step, create_fstab, the swap step, finish_install and setup_target, in
\* exactly this order and each started when the one before it had returned;
\* no curthooks step and no package installation happens on this path.
C18_core_boot_classic_order ==
  (InCurtin /\ core_boot_classic) =>
    /\ IsPrefix(StartedOps, CoreBootClassicOrder("use_tpm" \in inputs))
    /\ EachAfterPrevious
    /\ \A i \in ConfigsOf("partitioning") :
         /\ trace[i].config.dict.storage.dict.rendered = V("DEVICES")
         /\ trace[i].stages = <<"partitioning">>
    /\ \A i \in ConfigsOf("formatting") :
         /\ trace[i].config.dict.storage.dict.rendered = V("FORMAT_MOUNT")
         /\ trace[i].stages = <<"partitioning">>
    /\ \A i \in DOMAIN trace :
         trace[i].op \notin {"curthooks", "install_package", "apt_update"}
    /\ pc \in {"reset_partition", "curtin_install_done"} =>
         StartedOps = CoreBootClassicOrder("use_tpm" \in inputs)

C18_witness ==
  /\ InCurtin /\ core_boot_classic
  /\ "use_tpm" \in inputs
  /\ pc = "curtin_install_done"
  /\ Len(StartedOps) = 9

\* C19: the populate recovery step is run only for a reset partition, after
\* every operation of the path returned successfully and the reset partition
\* was mounted, with source cp:///cdrom and the mount point as install
\* target, and no step follows it; the reset partition is mounted while it
\* runs and is unmounted when curtin_install ends, after a successful and
\* after a failed populate step alike (it stays mounted only if the unmount
\* itself fails).  Without a reset partition nothing is mounted and the step
\* is never run.
C19_populate_recovery_in_scoped_mount ==
  /\ "reset_partition" \notin inputs =>
       /\ ~mounted
       /\ \A i \in DOMAIN trace : trace[i].op \notin ResetPartitionOps
  /\ (pc = "curtin_step" /\ op = "populate recovery") => mounted
  /\ \A i \in At(Ev("start", "populate recovery", 0)) :
       /\ trace[i - 1] = Ev("ok", "mount", 0)
       /\ \A j \in 1..(i - 1) : trace[j].k \notin {"fail", "device_map_error"}
       /\ StartedOps = IF core_boot_classic
                       THEN CoreBootClassicOrder("use_tpm" \in inputs)
                       ELSE ClassicOrder(metapkgs, has_network)
       /\ trace[i + 1].k = "config"
       /\ trace[i + 1].source = "cp:///cdrom"
       /\ trace[i + 1].stages = <<"extract">>
       /\ trace[i + 1].config.dict.install.dict.target = V("mountpoint")
       /\ trace[i + 1].config.dict.install.dict.resume_data = V(None)
       /\ trace[i + 1].config.dict.install.dict.extra_rsync_args
            = V(<<"--no-links">>)
       /\ \A j \in (i + 1)..Len(trace) :
            trace[j].k = "start" => trace[j].op = "unmount"
       /\ Cardinality(At(Ev("start", "unmount", 0))) <= 1
       /\ (InCurtin /\ pc \in {"curtin_install_done", "raised"}) =>
            /\ Cardinality(At(Ev("start", "unmount", 0))) = 1
            /\ mounted => trace[Len(trace)] = Ev("fail", "unmount", 0)
  /\ (pc = "curtin_install_done" /\ "reset_partition" \in inputs) =>
       /\ At(Ev("ok", "populate recovery", 0)) # {}
       /\ ~mounted

C19_witness ==
  /\ pc = "raised"
  /\ At(Ev("fail", "populate recovery", 0)) # {}
  /\ At(Ev("ok", "unmount", 0)) # {}
  /\ ~mounted

\* C20: building a step's configuration never changes the base configuration
\* of the run: after any calls of the closure with any step configurations
\* (also ones that replace install.target or set install.resume_data to
\* null, as rp_config does) the base configuration has the value it was
\* created with, every configuration built is that value with the step's
\* configuration merged in, and the step configuration passed in is left as
\* it was.
C20_base_config_never_changed ==
  /\ heap["base_config"] \in {V(None), base_config(logs_dir, resume_data_file)}
  /\ \A i \in DOMAIN built :
       /\ built[i].config = merge_config(base_config(logs_dir, resume_data_file),
                                         built[i].step_config)
       /\ (built[i].step_config = D(<<>>)) =>
            built[i].config = base_config(logs_dir, resume_data_file)
  /\ built # <<>> =>
       /\ heap["step_config"] = built[Len(built)].step_config
       /\ heap["config"] = built[Len(built)].config

C20_witness ==
  /\ Len(built) = 2
  /\ built[1].step_config = rp_config(logs_dir, "mountpoint")
  /\ built[1].config.dict.install.dict.target = V("mountpoint")
  /\ built[1].config.dict.install.dict.resume_data = V(None)
  /\ built[2].step_config = D(<<>>)
  /\ built[2].config.dict.install.dict.target = V("/target")

\* the trace is the history of a postinstall
InPostinstall ==
  trace # <<>> /\ trace[1] = Ev("start", "configure_cloud_init", 0)

\* C21: in postinstall UU_RUNNING is published and the unattended-upgrade
\* subprocess is started exactly when the network is available: with network
\* both have happened when postinstall comes to restore_apt_config, without
\* network neither ever happens, the published states end RUNNING, DONE with
\* no UU_RUNNING or UU_CANCELLING, and no stop_uu starts the cancel task or
\* issues the stop-only command.
C21_upgrades_only_with_network ==
  /\ "UU_RUNNING" \in Range(published) <=>
       (InPostinstall /\ At(Ev("start", "unattended-upgrades", 0)) # {})
  /\ "UU_RUNNING" \in Range(published) => has_network
  /\ (InPostinstall /\ At(Ev("start", "restore_apt_config", 0)) # {}) =>
       (has_network <=> "UU_RUNNING" \in Range(published))
  /\ ~has_network =>
       /\ Range(published) \cap {"UU_RUNNING", "UU_CANCELLING"} = {}
       /\ uu_proc = "none"
       /\ unattended_upgrades_ctx = None /\ unattended_upgrades_cmd = None
       /\ stop_task = "none"
       /\ stop_only_issued = 0 /\ terminate_calls = 0
       /\ pc = "done" =>
            /\ published[Len(published)] = "DONE"
            /\ published[Len(published) - 1] = "RUNNING"

C21_witness ==
  /\ ~has_network
  /\ pc = "done"
  /\ At(Ev("ok", "restore_apt_config", 0)) # {}

\* the calls made of function fn
CallsOf(fn) == {i \in DOMAIN calls : calls[i].fn = fn}

\* C22: for a list of scale factors with exactly one factor whose maximum is
\* -1 and an available_space of at least the sum of the minimums, the sizes
\* scale_partitions returns sum to available_space.
C22_sizes_sum_to_available ==
  \A i \in CallsOf("scale_partitions") :
    LET fs == calls[i].args.all_factors
        available_space == calls[i].args.available_space
    IN  (/\ Cardinality({j \in DOMAIN fs : fs[j].maximum = -1}) = 1
         /\ available_space >= SumSeq([j \in DOMAIN fs |-> fs[j].minimum]))
        => SumSeq(calls[i].result) = available_space

\* C23: every size scale_partitions returns is at least its factor's minimum
\* and, unless the factor's maximum is -1, at most its factor's maximum.
C23_sizes_within_bounds ==
  \A i \in CallsOf("scale_partitions") :
    LET fs == calls[i].args.all_factors
    IN  \A j \in DOMAIN fs :
          /\ calls[i].result[j] >= fs[j].minimum
          /\ fs[j].maximum = -1 \/ calls[i].result[j] <= fs[j].maximum

\* other_min as the claim C24 gives it
OtherMin(part_min, part_size, part_align) ==
  Min(align_up(part_min + Max(2 * GiB, CeilDiv(part_min, 4)), part_align),
      align_up(part_size, part_align))

\* C24: calculate_guided_resize returns None exactly when part_min < 0 or
\* the aligned part_size minus other_min is less than install_min, and
\* returns a result for every other input.
C24_none_exactly_when_no_room ==
  \A i \in CallsOf("calculate_guided_resize") :
    LET a == calls[i].args
        no_room == \/ a.part_min < 0
                   \/ align_up(a.part_size, a.part_align)
                        - OtherMin(a.part_min, a.part_size, a.part_align)
                      < a.install_min
    IN  /\ no_room <=> calls[i].result.kind = "None"
        /\ ~no_room => calls[i].result.kind = "GuidedResizeValues"

\* C25: every result calculate_guided_resize returns has
\* minimum <= recommended <= maximum, and its maximum is the aligned
\* part_size minus install_min, aligned down.
C25_recommended_within_window ==
  \A i \in CallsOf("calculate_guided_resize") :
    LET a == calls[i].args
        r == calls[i].result
    IN  r.kind = "GuidedResizeValues" =>
          /\ r.minimum <= r.recommended
          /\ r.recommended <= r.maximum
          /\ r.maximum = align_down(align_up(a.part_size, a.part_align)
                                    - a.install_min, a.part_align)

C25_witness ==
  \E i \in CallsOf("calculate_guided_resize") :
    /\ calls[i].result.kind = "GuidedResizeValues"
    /\ calls[i].result.minimum < calls[i].result.recommended
    /\ calls[i].result.recommended < calls[i].result.maximum
    /\ calls[i].args.part_align = MiB

\* C26: for one alignment calculate_suggested_install_min does not decrease
\* when source_min grows, and its value is the smallest multiple of the
\* alignment that is at least source_min + bootfs minimum + uefi minimum +
\* max(2 GiB, ceil(source_min / 2)).
C26_install_min_monotonic ==
  /\ \A i, j \in CallsOf("calculate_suggested_install_min") :
       (/\ calls[i].args.part_align = calls[j].args.part_align
        /\ calls[i].args.source_min <= calls[j].args.source_min)
       => calls[i].result <= calls[j].result
  /\ \A i \in CallsOf("calculate_suggested_install_min") :
       LET a == calls[i].args
           total == a.source_min + 1792 * MiB + 538 * MiB
                    + Max(2 * GiB, CeilDiv(a.source_min, 2))
       IN  /\ calls[i].result % a.part_align = 0
           /\ calls[i].result >= total
           /\ calls[i].result - a.part_align < total

C26_witness ==
  /\ Len(calls) = 2
  /\ calls[1].fn = "calculate_suggested_install_min"
  /\ calls[1].args.part_align = GiB /\ calls[2].args.part_align = GiB
  /\ calls[1].args.source_min = 4 * GiB
  /\ calls[2].args.source_min = 6 * GiB
  /\ calls[1].result = 9 * GiB
  /\ calls[2].result = 12 * GiB

\* C27: scaled_rootfs_size(available) is available below 10 GiB, 10 GiB from
\* 10 GiB to below 20 GiB, floor(available / 2) from 20 GiB to below 200 GiB
\* and 100 GiB from 200 GiB on (so 5 GiB gives 5 GiB, 15 GiB gives 10 GiB,
\* 100 GiB gives 50 GiB, 500 GiB gives 100 GiB); it is never more than
\* available and does not decrease when available grows.
C27_rootfs_step_function ==
  /\ \A i \in CallsOf("scaled_rootfs_size") :
       LET available == calls[i].args.available
           r == calls[i].result
       IN  /\ available < 10 * GiB => r = available
           /\ (10 * GiB <= available /\ available < 20 * GiB) => r = 10 * GiB
           /\ (20 * GiB <= available /\ available < 200 * GiB) =>
                (2 * r <= available /\ available < 2 * r + 2)
           /\ available >= 200 * GiB => r = 100 * GiB
           /\ available = 5 * GiB => r = 5 * GiB
           /\ available = 15 * GiB => r = 10 * GiB
           /\ available = 100 * GiB => r = 50 * GiB
           /\ available = 500 * GiB => r = 100 * GiB
           /\ r <= available
  /\ \A i, j \in CallsOf("scaled_rootfs_size") :
       calls[i].args.available <= calls[j].args.available
         => calls[i].result <= calls[j].result

C27_witness ==
  /\ Len(calls) = 2
  /\ calls[1].fn = "scaled_rootfs_size"
  /\ calls[1].args.available = 200 * GiB - 1
  /\ calls[1].result = 100 * GiB - 1
  /\ calls[2].args.available = 500 * GiB
  /\ calls[2].result = 100 * GiB

\* the first line of fed that begins with the start marker (0: none)
FirstMarker ==
  IF \E i \in DOMAIN fed : start_marker(fed[i])
  THEN CHOOSE i \in DOMAIN fed :
         start_marker(fed[i]) /\ \A j \in 1..(i - 1) : ~start_marker(fed[j])
  ELSE 0

\* the first line after FirstMarker whose first character is not whitespace,
\* or the last line fed so far when there is none yet
RunEnd ==
  LET ends == {j \in DOMAIN fed : j > FirstMarker /\ end_marker(fed[j])}
  IN  IF ends = {} THEN Len(fed)
      ELSE CHOOSE j \in ends : \A k \in ends : j <= k

\* C28: whatever lines have been fed to the traceback extractor, the captured
\* traceback is exactly the contiguous run of lines from the first line that
\* begins with the start marker to the first later line whose first character
\* is not whitespace, both included, in order and without duplicates; no
\* line before the marker is captured.
C28_traceback_is_first_run ==
  traceback = IF FirstMarker = 0 THEN <<>> ELSE SubSeq(fed, FirstMarker, RunEnd)

C28_witness ==
  /\ Len(fed) = 5
  /\ FirstMarker = 2
  /\ RunEnd = 4
  /\ fed[3] = <<" ", "x">>
  /\ start_marker(fed[5])
  /\ traceback = SubSeq(fed, 2, 4)

\* C29: a request contract_selection_wait_GET whose polling ended because
\* the magic token expired is answered with status TIMEOUT and no contract
\* token, not with an exception; one whose polling obtained a contract token
\* is answered with status SUCCESS and that token.
C29_expiry_is_a_status ==
  \A k \in DOMAIN responses :
    LET r == responses[k]
    IN  r.on # 0 =>
          /\ tasks[r.on].st = "UPCSExpiredError" =>
               /\ r.kind = "UPCSWaitResponse"
               /\ r.status = "TIMEOUT"
               /\ r.contract_token = None
          /\ tasks[r.on].st = "returned" =>
               /\ r.kind = "UPCSWaitResponse"
               /\ r.status = "SUCCESS"
               /\ r.contract_token = tasks[r.on].result

C29_witness ==
  /\ Len(responses) = 2
  /\ responses[1].blocked /\ responses[1].status = "TIMEOUT"
  /\ responses[2].blocked /\ responses[2].status = "SUCCESS"
  /\ responses[2].contract_token = "token2"

\* C30: a request blocked in contract_selection_wait_GET on a contract
\* selection that contract_selection_cancel_POST cancels ends with a
\* distinct outcome, a cancelled status or UPCSCancelledError, not with an
\* unhandled failure or its own cancellation.
C30_cancel_is_a_distinct_outcome ==
  \A k \in DOMAIN responses :
    LET r == responses[k]
    IN  (r.blocked /\ tasks[r.on].st = "cancelled") =>
          \/ r.kind = "UPCSCancelledError"
          \/ r.kind = "UPCSWaitResponse" /\ r.status = "CANCELLED"

\* the polling tasks that are not done
Unfinished == {i \in DOMAIN tasks : ~Done(tasks[i])}

\* C31: at most one contract selection is pending at any time, also when
\* requests contract_selection_initiate_POST overlap: there is never more
\* than one unfinished polling task, and every unfinished polling task is
\* the one the controller refers to.
C31_one_pending_selection ==
  /\ Cardinality(Unfinished) <= 1
  /\ \A i \in Unfinished : cs = i

\* the configuration of the step whose event is at position i of the trace
ConfigBefore(i) ==
  LET cfgs == {j \in 1..i : trace[j].k = "config" /\ trace[j].op = trace[i].op}
  IN  trace[CHOOSE j \in cfgs : \A l \in cfgs : l <= j].config

\* C32: update_devices is called for a step only right after the external
\* tool returned successfully for that step and only when the step's
\* configuration has a storage.device_map_path; after every successful
\* return of the tool for such a step the file is read once, and either
\* update_devices is called once or, the file being missing or unparsable,
\* the step fails and no further step of the installation is started.
C32_device_map_after_success ==
  /\ \A i \in DOMAIN trace :
       trace[i].k = "update_devices" =>
         /\ i > 1 /\ trace[i - 1] = Ev("ok", trace[i].op, 0)
         /\ device_map_path(ConfigBefore(i)) # V(None)
  /\ \A i \in DOMAIN trace :
       (trace[i].k = "ok" /\ trace[i].op \in CurtinSteps
        /\ device_map_path(ConfigBefore(i)) # V(None)) =>
         /\ i < Len(trace)
         /\ trace[i + 1].op = trace[i].op
         /\ trace[i + 1].k \in {"update_devices", "device_map_error"}
  /\ \A i \in DOMAIN trace :
       trace[i].k = "device_map_error" =>
         /\ i = Len(trace)
         /\ pc = "raised"

C32_witness ==
  /\ At(Ev("update_devices", "partitioning", 0)) # {}
  /\ At(Ev("device_map_error", "formatting", 0)) # {}
  /\ At(Ev("ok", "formatting", 0)) # {}

\* C33: on the classic path the OEM meta-packages are processed in three
\* batches: every package is installed once; only with network, one apt-get
\* update is run per package, none started before the first install of
\* every package has completed; then every package is installed a second
\* time, no reinstall started before every update has completed.  Without
\* network there is no update and each package is installed exactly once.
C33_oem_batches ==
  InCurtin =>
    /\ \A n \in 1..metapkgs :
         /\ Cardinality(At(Ev("start", "install_package", n)))
              <= (IF has_network THEN 2 ELSE 1)
         /\ Cardinality(At(Ev("start", "apt_update", n)))
              <= (IF has_network THEN 1 ELSE 0)
         /\ \A i \in At(Ev("start", "apt_update", n)) :
              \A k \in 1..metapkgs :
                \E j \in At(Ev("ok", "install_package", k)) : j < i
         /\ \A i, i2 \in At(Ev("start", "install_package", n)) :
              i < i2 =>
                \A k \in 1..metapkgs :
                  \E j \in At(Ev("ok", "apt_update", k)) : j < i2
         /\ \A i \in At(Ev("start", "curthooks", 0)) :
              /\ Cardinality({j \in At(Ev("ok", "install_package", n)) : j < i})
                   = (IF has_network THEN 2 ELSE 1)
              /\ Cardinality({j \in At(Ev("ok", "apt_update", n)) : j < i})
                   = (IF has_network THEN 1 ELSE 0)
    /\ \A i \in DOMAIN trace :
         trace[i].op \in {"install_package", "apt_update"} =>
           trace[i].n \in 1..metapkgs

C33_witness ==
  /\ InCurtin
  /\ metapkgs = OemBatch
  /\ has_network
  /\ At(Ev("start", "curthooks", 0)) # {}
  /\ Cardinality(At(Ev("ok", "install_package", OemBatch))) = 2

\* the sizes C34 gives for a disk of available_space
EfiOf(available_space) ==
  Max(538 * MiB, Min(1075 * MiB, (available_space * 538) \div 11562))
BootOf(available_space) ==
  Max(1792 * MiB, Min(2048 * MiB, (available_space * 1024) \div 11562))

\* C34: for the factor set (uefi, bootfs, rootfs) and an available_space of
\* at least 3230 MiB scale_partitions returns [efi, boot, root] with
\* 538 MiB <= efi <= 1075 MiB, 1792 MiB <= boot <= 2048 MiB,
\* root = available_space - efi - boot and root >= 900 MiB; get_efi_size
\* returns efi and get_bootfs_size returns boot; for 20 GiB efi and boot are
\* the priority shares floor(20 GiB * 538 / 11562) and
\* floor(20 GiB * 1024 / 11562).
C34_sizes_of_install ==
  /\ \A i \in CallsOf("scale_partitions") :
       LET a == calls[i].args.available_space
           r == calls[i].result
       IN  (calls[i].args.all_factors =
              <<[minimum |-> 538 * MiB, priority |-> 538,
                 maximum |-> 1075 * MiB],
                [minimum |-> 1792 * MiB, priority |-> 1024,
                 maximum |-> 2048 * MiB],
                [minimum |-> 900 * MiB, priority |-> 10000, maximum |-> -1]>>
            /\ a >= 3230 * MiB) =>
             /\ Len(r) = 3
             /\ 538 * MiB <= r[1] /\ r[1] <= 1075 * MiB
             /\ 1792 * MiB <= r[2] /\ r[2] <= 2048 * MiB
             /\ r[3] = a - r[1] - r[2]
             /\ r[3] >= 900 * MiB
             /\ r[1] = EfiOf(a) /\ r[2] = BootOf(a)
             /\ a = 20 * GiB =>
                  /\ r[1] = (20 * GiB * 538) \div 11562
                  /\ r[2] = (20 * GiB * 1024) \div 11562
  /\ \A i \in CallsOf("get_efi_size") :
       calls[i].args.available_space >= 3230 * MiB =>
         calls[i].result = EfiOf(calls[i].args.available_space)
  /\ \A i \in CallsOf("get_bootfs_size") :
       calls[i].args.available_space >= 3230 * MiB =>
         calls[i].result = BootOf(calls[i].args.available_space)

C34_witness ==
  /\ Len(calls) = 1
  /\ calls[1].fn = "get_efi_size"
  /\ calls[1].args.available_space = 20 * GiB
  /\ calls[1].result = (20 * GiB * 538) \div 11562
  /\ 538 * MiB < calls[1].result /\ calls[1].result < 1075 * MiB

\* no contract selection is current: none was initiated, or cancel was
\* called on the one initiated last
NoneCurrent == tasks = <<>> \/ tasks[Len(tasks)].deletes > 0

\* C35: contract_selection_wait_GET and contract_selection_cancel_POST raise
\* UPCSNotInitiatedError whenever no contract selection is current, that is
\* before any initiate and after a cancel, and only then; a selection that
\* finished by success or expiry stays current, and a new initiate is then
\* accepted and replaces it.
C35_not_initiated_when_none_current ==
  /\ [](cs = 0 <=> NoneCurrent)
  /\ []((/\ cs # 0
          /\ tasks[cs].st \in {"returned", "UPCSExpiredError"}
          /\ Len(tasks) + initiating < MaxSelections)
         => ENABLED contract_selection_initiate_POST)
  /\ [][/\ Len(responses') > Len(responses) =>
             LET r == responses'[Len(responses')]
             IN  /\ (~r.blocked /\ NoneCurrent) =>
                      r.kind = "UPCSNotInitiatedError"
                 /\ r.kind = "UPCSNotInitiatedError" => NoneCurrent
        /\ (wait_on' # wait_on /\ wait_on' # 0) => ~NoneCurrent
        /\ (cs # 0 /\ cs' = 0) => tasks'[cs].deletes = 1
        /\ (/\ cs # 0
            /\ tasks[cs].st \in {"returned", "UPCSExpiredError"}
            /\ Len(tasks') > Len(tasks)) => cs' = Len(tasks')]_vars

C35_witness ==
  /\ Len(tasks) = 2
  /\ tasks[1].st = "UPCSExpiredError" /\ tasks[1].deletes = 0
  /\ tasks[2].deletes = 1
  /\ cs = 0
  /\ Len(responses) = 2
  /\ responses[1].req = "cancel" /\ responses[2].req = "wait"
  /\ responses[1].kind = "UPCSNotInitiatedError"
  /\ responses[2].kind = "UPCSNotInitiatedError"

\* C36: the polling of a contract selection sleeps before its first GET and
\* again between any two GETs; it ends at the first answer that is None,
\* raising UPCSExpiredError, or that has a contractToken, returning that
\* token; it goes on after any other answer; it sends no GET once it ended.
C36_polling_protocol ==
  /\ [](\A i \in DOMAIN tasks :
          LET t == tasks[i]
          IN  /\ t.gets <= t.naps
              /\ t.st = "requesting" => t.gets = t.naps
              /\ t.st = "UPCSExpiredError" <=> t.answer = None
              /\ t.st = "returned" <=> t.answer \in Tokens
              /\ t.st = "returned" => t.result = t.answer
              /\ t.answer = "pending" =>
                   t.st \in {"sleeping", "requesting", "ClientError",
                             "cancelled"})
  /\ [][\A i \in DOMAIN tasks :
          /\ tasks'[i].gets > tasks[i].gets =>
               /\ tasks[i].st = "sleeping"
               /\ tasks'[i].gets = tasks[i].gets + 1
               /\ tasks[i].naps = tasks[i].gets + 1
          /\ Done(tasks[i]) =>
               /\ tasks'[i].st = tasks[i].st
               /\ tasks'[i].gets = tasks[i].gets
               /\ tasks'[i].result = tasks[i].result]_vars

C36_witness ==
  \E i \in DOMAIN tasks :
    /\ tasks[i].st = "returned"
    /\ tasks[i].gets = 2 /\ tasks[i].naps = 2
    /\ tasks[i].result = "token1"

\* C37: ContractSelection.cancel stops the polling and releases the server
\* resource: once cancel was called no GET is started for the selection,
\* exactly one DELETE is issued for it, and a client error of the DELETE is
\* logged and changes nothing for the caller of cancel or any other request.
C37_cancel_stops_and_releases ==
  /\ [](\A i \in DOMAIN tasks :
          /\ tasks[i].deletes \in {0, 1}
          /\ tasks[i].deletes = 1 => Done(tasks[i])
          /\ tasks[i].st = "cancelled" => tasks[i].deletes = 1
          /\ tasks[i].deletes = 1 <=> (i \in revoking \/ tasks[i].deleted # "no"))
  /\ [][/\ (cs # 0 /\ cs' = 0) =>
             /\ tasks'[cs].deletes = 1
             /\ cs \in revoking'
        /\ \A i \in DOMAIN tasks :
             /\ tasks[i].deletes > 0 => tasks'[i].gets = tasks[i].gets
             /\ tasks'[i].deleted # tasks[i].deleted =>
                  /\ tasks' = [tasks EXCEPT ![i].deleted = tasks'[i].deleted]
                  /\ UNCHANGED <<cs, initiating, wait_on, responses>>]_vars

C37_witness ==
  \E i \in DOMAIN tasks :
    /\ tasks[i].st = "cancelled"
    /\ tasks[i].gets = 1
    /\ tasks[i].deleted = "ClientError logged"
    /\ i \notin revoking

\* the captured traceback has been closed by its terminating line
Closed == traceback # <<>> /\ ~in_traceback

\* C38: the traceback extractor keeps only the first traceback: once the
\* captured traceback has been closed by its terminating line, no later
\* line, a second complete traceback included, changes the captured list or
\* opens the capture again.
C38_first_traceback_only ==
  [][Closed => (traceback' = traceback /\ ~in_traceback')]_vars

C38_witness ==
  /\ Closed
  /\ Len(fed) = 5
  /\ traceback = SubSeq(fed, 1, 2)
  /\ start_marker(fed[3])
  /\ fed[4] = <<" ", "x">>
  /\ end_marker(fed[5])

\* everything but the record that a call of stop_uu was without effect
BesideDisregard ==
  <<cfgv, mergev, sidev, inputs, appv, confv, flowv, failv, pkgv, uuv, tbv,
    stop_task, stop_only_issued, terminate_calls>>

\* C39: stop_uu called in a state other than UU_RUNNING changes nothing and
\* starts no cancel task; a cancellation asked for before UU_RUNNING is
\* published is not remembered: when UU_RUNNING is published the upgrade is
\* started, and while the state is UU_RUNNING no cancel task exists, no
\* stop-only command was issued and the subprocess is not being terminated.
C39_stop_uu_elsewhere_is_noop ==
  /\ [][/\ stop_uu_disregarded' # stop_uu_disregarded =>
             /\ state # "UU_RUNNING"
             /\ UNCHANGED BesideDisregard
        /\ (stop_task' # stop_task /\ stop_task' = "scheduled") =>
             state = "UU_RUNNING"
        /\ (state # "UU_RUNNING" /\ state' = "UU_RUNNING") =>
             /\ "unattended-upgrades" \in running'
             /\ pc' = "uu_start"]_vars
  /\ [](state = "UU_RUNNING" =>
          /\ stop_task = "none"
          /\ stop_only_issued = 0
          /\ terminate_calls = 0
          /\ uu_proc # "terminating")

C39_witness ==
  /\ stop_uu_disregarded
  /\ state = "UU_RUNNING"
  /\ pc = "after" /\ op = "unattended-upgrades"
  /\ uu_proc = "exit_zero"
  /\ stop_task = "none"

RestoreStarts == At(Ev("start", "restore_apt_config", 0))
RestoreEnds == At(Ev("ok", "restore_apt_config", 0))
UpgradeStarts == At(Ev("start", "unattended-upgrades", 0))
UpgradeEnds ==
  At(Ev("ok", "unattended-upgrades", 0))
    \cup At(Ev("exit_nonzero", "unattended-upgrades", 0))

\* C40: in every post-install that completes, restore_apt_config is run
\* exactly once, after the unattended-upgrade subprocess has exited if one
\* was started, and before DONE is published, also when the upgrade was
\* cancelled or exited with non-zero.
C40_apt_config_restored_once ==
  /\ []((pc = "done" \/ state = "DONE") =>
          /\ Cardinality(RestoreStarts) = 1
          /\ Cardinality(RestoreEnds) = 1
          /\ "restore_apt_config" \notin running)
  /\ [](\A i \in RestoreStarts :
          /\ uu_proc \in {"none", "exit_zero", "exit_nonzero"}
          /\ UpgradeStarts # {} =>
               \E j \in UpgradeEnds : \A k \in UpgradeStarts : k < j /\ j < i)
  /\ []("restore_apt_config" \in running =>
          /\ uu_proc \in {"none", "exit_zero", "exit_nonzero"}
          /\ state # "DONE")
  /\ [][(state' = "DONE" /\ state # "DONE") =>
          /\ RestoreEnds # {}
          /\ trace' = trace]_vars

C40_witness ==
  /\ pc = "done"
  /\ state = "DONE"
  /\ "UU_CANCELLING" \in Range(published)
  /\ uu_proc = "exit_nonzero"
  /\ terminate_calls = 1
  /\ Cardinality(RestoreStarts) = 1
  /\ \E j \in UpgradeEnds : \A i \in RestoreStarts : j < i

====
